---------------------------- MODULE Spec2Model ----------------------------
(***************************************************************************)
(* Model of the price / discount / classification core of the             *)
(* coleta_produtos scraper:                                                *)
(*   src/scrapers/utils/validators.py      Product, DataProcessor,         *)
(*                                         ProductClassifier               *)
(*   src/scrapers/engines/playwright_engine.py                             *)
(*                                         PlaywrightEngine: category      *)
(*                                         cache, _extract_single_product  *)
(*                                                                         *)
(* Each component has its own specification (SpecPrice, SpecProduct,       *)
(* SpecKeywords, SpecClassify, SpecExtract): the inputs of one call are    *)
(* drawn in the initial state and the action applies the call.             *)
(*                                                                         *)
(* Texts are sequences of one-character strings.  A parsed number is a     *)
(* record [m, e] standing for the decimal m / 10^e, so that "1.049" read   *)
(* as a decimal (m = 1049, e = 3) differs from "1.049" read as thousands   *)
(* (m = 1049, e = 0).  NoNum is Python's None where a float is expected,   *)
(* None is Python's None where a string is expected.                       *)
(***************************************************************************)
EXTENDS Integers, Sequences, FiniteSets, TLC

VARIABLES
    price_text,          \* clean_price: the argument
    price_result,        \* clean_price: <<>> before the call, <<returned value>> after
    product_data,        \* Product(**data): the keyword arguments
    product,             \* the Product object: <<>> when there is none, <<fields>> after
    product_error,       \* TRUE when Product(**data) raised ValidationError
    kw_name,             \* classify_by_keywords: product_name
    kw_description,      \* classify_by_keywords: product_description
    kw_result,           \* classify_by_keywords: <<>>, then <<(category, confidence)>>
    cls_name,            \* classify_product: name
    cls_url,             \* classify_product: url
    cls_description,     \* classify_product: description
    cls_result,          \* classify_product: <<>>, then <<(category, confidence)>>
    cls_keywords_called, \* classify_product reached its call of classify_by_keywords
    category_cache,      \* PlaywrightEngine.category_cache: url_key -> (category, confidence)
    ext_element,         \* _extract_single_product: what the selectors find in the fragment
    ext_page,            \* what the browser meets at the product's own page
    ext_run,             \* _extract_single_product: <<>>, then <<what the call did>>
    pid_url,             \* extract_product_id: url
    pid_result,          \* extract_product_id: <<>>, then <<what the call did>>
    search_cache,        \* rows of the search_cache table
    utc_now,             \* the clock: hours of UTC
    tz_offset,           \* local time minus UTC, in hours
    cache_reply,         \* <<>> or <<the last get_cached_search call and its result>>
    rt_products,         \* the Product objects handed to save_products / cache_search_results
    rt_saved,            \* <<>> or <<what was written: the file or the cache row>>
    rt_loaded,           \* <<>> or <<what reading it back gave>>
    pg_input,            \* extract_products_from_page: <<>> or <<what the browser gives for the url>>
    pg_pos,              \* the number of fragments the loop has been through
    pg_products,         \* the list `products` of the loop
    pg_returned,         \* <<>> or <<the returned list>>
    cat_call,            \* <<>> or <<the last extract_category_from_product_page call and its result>>
    srch_call,           \* a search function called: <<>> or <<[function, query, max_products, category_id]>>
    srch_products,       \* its local products
    srch_page_num,       \* its local page_num
    srch_fetches,        \* the calls of extract_products_from_page it has made
    srch_empty,          \* one of them returned no products
    srch_result,         \* <<>> while it runs, then <<[raised, products]>>
    aff_products,        \* generate_affiliate_links_batch: <<>> or <<the products argument>>
    aff_results,         \* its return value: <<>> before, <<results>> after
    aff_urls,            \* generate_affiliate_links_batch_single_request: <<>> or <<product_urls>>
    aff_retry_count,     \* its retry_count
    aff_attempts,        \* the attempts made on the page
    aff_last,            \* how the last attempt ended: <<>> or <<outcome>>
    aff_links            \* its return value: <<>> before, <<affiliate_links>> after

priceVars == <<price_text, price_result>>
productVars == <<product_data, product, product_error>>
kwVars == <<kw_name, kw_description, kw_result>>
clsVars == <<cls_name, cls_url, cls_description, cls_result, cls_keywords_called>>
extVars == <<category_cache, ext_element, ext_page, ext_run>>
pidVars == <<pid_url, pid_result>>
cacheVars == <<search_cache, utc_now, tz_offset, cache_reply>>
storeVars == <<rt_products, rt_saved, rt_loaded>>
pageVars == <<pg_input, pg_pos, pg_products, pg_returned>>
catVars == <<cat_call>>
searchVars == <<srch_call, srch_products, srch_page_num, srch_fetches, srch_empty, srch_result>>
affVars == <<aff_products, aff_results, aff_urls, aff_retry_count, aff_attempts, aff_last, aff_links>>

vars == <<priceVars, productVars, kwVars, clsVars, extVars, pidVars, cacheVars, storeVars, pageVars, catVars, searchVars, affVars>>

\* What each operation leaves alone besides its own variables.
notPrice == <<productVars, kwVars, clsVars, extVars, pidVars, cacheVars, storeVars, pageVars, catVars, searchVars, affVars>>
notProduct == <<priceVars, kwVars, clsVars, extVars, pidVars, cacheVars, storeVars, pageVars, catVars, searchVars, affVars>>
notKw == <<priceVars, productVars, clsVars, extVars, pidVars, cacheVars, storeVars, pageVars, catVars, searchVars, affVars>>
notCls == <<priceVars, productVars, kwVars, extVars, pidVars, cacheVars, storeVars, pageVars, catVars, searchVars, affVars>>
notExt == <<priceVars, productVars, kwVars, clsVars, pidVars, cacheVars, storeVars, pageVars, catVars, searchVars, affVars>>
notPid == <<priceVars, productVars, kwVars, clsVars, extVars, cacheVars, storeVars, pageVars, catVars, searchVars, affVars>>
notCache == <<priceVars, productVars, kwVars, clsVars, extVars, pidVars, storeVars, pageVars, catVars, searchVars, affVars>>
notStore == <<priceVars, productVars, kwVars, clsVars, extVars, pidVars, cacheVars, pageVars, catVars, searchVars, affVars>>
notPage == <<priceVars, productVars, kwVars, clsVars, extVars, pidVars, cacheVars, storeVars, catVars, searchVars, affVars>>
notCat == <<priceVars, productVars, kwVars, clsVars, extVars, pidVars, cacheVars, storeVars, pageVars, searchVars, affVars>>
notSearch == <<priceVars, productVars, kwVars, clsVars, extVars, pidVars, cacheVars, storeVars, pageVars, catVars, affVars>>
notAff == <<priceVars, productVars, kwVars, clsVars, extVars, pidVars, cacheVars, storeVars, pageVars, catVars, searchVars>>

None == "None"

-----------------------------------------------------------------------------
(* Bounds                                                                  *)

MaxPriceLen == 6
MaxNameWords == 3
MaxUrlParts == 3
MaxMatched == 3
MaxIdParts == 3
MaxClock == 3
MaxFragments == 3
MaxProducts == 3
MaxBatch == 3

-----------------------------------------------------------------------------
(* Text helpers (Python str operations used by the code)                   *)

Digits == {"0", "1", "2", "3", "4", "5", "6", "7", "8", "9"}

DigitVal(c) ==
    CASE c = "0" -> 0 [] c = "1" -> 1 [] c = "2" -> 2 [] c = "3" -> 3
      [] c = "4" -> 4 [] c = "5" -> 5 [] c = "6" -> 6 [] c = "7" -> 7
      [] c = "8" -> 8 [] c = "9" -> 9

\* All sequences over S of length 0..n.
SeqsUpTo(S, n) == UNION {[1..k -> S] : k \in 0..n}

\* s with only the characters satisfying keep: re.sub of the complement by ''.
RECURSIVE Filter(_, _)
Filter(s, keep) ==
    IF s = <<>> THEN <<>>
    ELSE IF Head(s) \in keep THEN <<Head(s)>> \o Filter(Tail(s), keep)
         ELSE Filter(Tail(s), keep)

\* str.count(c)
Count(s, c) == Cardinality({i \in 1..Len(s) : s[i] = c})

\* str.rfind(c): the last index of c (1-based), 0 when absent.  Python's
\* rfind is 0-based with -1 for absent; only the order of two results is used.
RFind(s, c) ==
    IF \E i \in 1..Len(s) : s[i] = c
    THEN CHOOSE i \in 1..Len(s) : s[i] = c /\ \A j \in (i+1)..Len(s) : s[j] # c
    ELSE 0

\* str.replace(c, ''): every occurrence of c removed.
Remove(s, c) == Filter(s, {s[i] : i \in 1..Len(s)} \ {c})

\* str.replace(c, d) for single characters.
Replace(s, c, d) == [i \in 1..Len(s) |-> IF s[i] = c THEN d ELSE s[i]]

\* The part of s before the first c, as str.split(c)[0].
BeforeFirst(s, c) ==
    IF \E i \in 1..Len(s) : s[i] = c
    THEN SubSeq(s, 1, (CHOOSE i \in 1..Len(s) :
                          s[i] = c /\ \A j \in 1..(i-1) : s[j] # c) - 1)
    ELSE s

\* The part of s after the last c, as str.split(c)[-1].
AfterLast(s, c) == SubSeq(s, RFind(s, c) + 1, Len(s))

\* The value of a string of decimal digits.
RECURSIVE DigitsValue(_)
DigitsValue(s) ==
    IF s = <<>> THEN 0
    ELSE 10 * DigitsValue(SubSeq(s, 1, Len(s) - 1)) + DigitVal(s[Len(s)])

AllDigits(s) == \A i \in 1..Len(s) : s[i] \in Digits

-----------------------------------------------------------------------------
(* Numbers                                                                 *)

Num(m, e) == [m |-> m, e |-> e]

\* None in a float position; every number has e >= 0.
NoNum == [m |-> 0, e |-> -1]
IsNum(x) == x.e >= 0

RECURSIVE Pow10(_)
Pow10(n) == IF n = 0 THEN 1 ELSE 10 * Pow10(n - 1)

\* Comparisons of two decimals m / 10^e by cross-multiplication.
NumLt(a, b) == a.m * Pow10(b.e) < b.m * Pow10(a.e)
NumEq(a, b) == a.m * Pow10(b.e) = b.m * Pow10(a.e)

\* Python float(s) for s over digits and '.': a number when s has at least
\* one digit and at most one '.', ValueError (NoNum here) otherwise.
PyFloat(s) ==
    IF Count(s, ".") > 1 \/ ~(\E i \in 1..Len(s) : s[i] \in Digits)
       \/ ~(\A i \in 1..Len(s) : s[i] \in Digits \cup {"."})
    THEN NoNum
    ELSE Num(DigitsValue(Remove(s, ".")),
             IF Count(s, ".") = 1 THEN Len(AfterLast(s, ".")) ELSE 0)

\* Python int(s) for s over digits: ValueError (-1 here) on the empty string.
PyInt(s) == IF s = <<>> \/ ~AllDigits(s) THEN -1 ELSE DigitsValue(s)

-----------------------------------------------------------------------------
(* DataProcessor.clean_price                                               *)

\* The '.'-only branch with the integer-part threshold off by a factor of ten.
CleanPriceDotOnly_Mut(clean_text) ==
    IF Count(clean_text, ".") = 1
    THEN LET p0 == BeforeFirst(clean_text, ".")
             p1 == AfterLast(clean_text, ".")
         IN  IF Len(p1) <= 2
             THEN IF PyInt(p0) < 0 THEN NoNum
                  ELSE IF PyInt(p0) < 1000 THEN PyFloat(clean_text)
                  ELSE PyFloat(Remove(clean_text, "."))
             ELSE PyFloat(Remove(clean_text, "."))
    ELSE PyFloat(Remove(clean_text, "."))

\* The '.'-only branch reading an empty integer part as 0 instead of
\* failing on it.
CleanPriceDotOnly_EmptyAsZero(clean_text) ==
    IF Count(clean_text, ".") = 1
    THEN LET p0 == BeforeFirst(clean_text, ".")
             p1 == AfterLast(clean_text, ".")
         IN  IF Len(p1) <= 2
             THEN IF PyInt(p0) < 100
                  THEN Num(DigitsValue(Remove(clean_text, ".")), Len(p1))
                  ELSE PyFloat(Remove(clean_text, "."))
             ELSE PyFloat(Remove(clean_text, "."))
    ELSE PyFloat(Remove(clean_text, "."))

\* The '.'-only branch, lines 113-129.
CleanPriceDotOnly(clean_text) ==
    IF Count(clean_text, ".") = 1               \* len(parts) == 2
    THEN LET p0 == BeforeFirst(clean_text, ".")
             p1 == AfterLast(clean_text, ".")
         IN  IF Len(p1) <= 2
             THEN \* int(parts[0]) is evaluated: ValueError on '' is caught
                  IF PyInt(p0) < 0 THEN NoNum
                  ELSE IF PyInt(p0) < 100 THEN PyFloat(clean_text)
                  ELSE PyFloat(Remove(clean_text, "."))
             ELSE PyFloat(Remove(clean_text, "."))
    ELSE PyFloat(Remove(clean_text, "."))

\* clean_price always taking ',' as the decimal separator when both
\* separators occur.
clean_price_CommaDecimal(text) ==
    IF text = <<>> THEN NoNum
    ELSE LET clean_text == Filter(text, Digits \cup {",", "."})
         IN  IF clean_text = <<>> THEN NoNum
             ELSE IF Count(clean_text, ",") > 0 /\ Count(clean_text, ".") > 0
             THEN PyFloat(Replace(Remove(clean_text, "."), ",", "."))
             ELSE IF Count(clean_text, ",") > 0
             THEN PyFloat(Replace(clean_text, ",", "."))
             ELSE IF Count(clean_text, ".") > 0
             THEN CleanPriceDotOnly(clean_text)
             ELSE PyFloat(clean_text)

clean_price(text) ==
    IF text = <<>> THEN NoNum                    \* if not price_text
    ELSE LET clean_text == Filter(text, Digits \cup {",", "."})
         IN  IF clean_text = <<>> THEN NoNum
             ELSE IF Count(clean_text, ",") > 0 /\ Count(clean_text, ".") > 0
             THEN IF RFind(clean_text, ",") > RFind(clean_text, ".")
                  THEN PyFloat(Replace(Remove(clean_text, "."), ",", "."))
                  ELSE PyFloat(Remove(clean_text, ","))
             ELSE IF Count(clean_text, ",") > 0
             THEN PyFloat(Replace(clean_text, ",", "."))
             ELSE IF Count(clean_text, ".") > 0
             THEN CleanPriceDotOnly(clean_text)
             ELSE PyFloat(clean_text)

-----------------------------------------------------------------------------
(* Product (pydantic model): field validators in declaration order          *)

Whitespace == {" "}

Letters ==
    {"a", "b", "c", "d", "e", "f", "g", "h", "i", "j", "k", "l", "m", "n",
     "o", "p", "q", "r", "s", "t", "u", "v", "w", "x", "y", "z",
     "A", "B", "C", "D", "E", "F", "G", "H", "I", "J", "K", "L", "M", "N",
     "O", "P", "Q", "R", "S", "T", "U", "V", "W", "X", "Y", "Z"}

\* The characters validate_name keeps: [\w\s\-\(\)\[\]\/\+\.]
NameAllowed ==
    Letters \cup Digits \cup Whitespace \cup {"_", "-", "(", ")", "[", "]", "/", "+", "."}

\* str.strip()
RECURSIVE LStrip(_)
LStrip(s) == IF s # <<>> /\ Head(s) \in Whitespace THEN LStrip(Tail(s)) ELSE s

RECURSIVE RStrip(_)
RStrip(s) ==
    IF s # <<>> /\ s[Len(s)] \in Whitespace THEN RStrip(SubSeq(s, 1, Len(s) - 1)) ELSE s

Strip(s) == LStrip(RStrip(s))

\* re.sub(r'\s+', ' ', s): every run of whitespace becomes one space.
RECURSIVE CollapseWhitespace(_)
CollapseWhitespace(s) ==
    IF s = <<>> THEN <<>>
    ELSE IF Head(s) \in Whitespace
         THEN <<" ">> \o CollapseWhitespace(LStrip(s))
         ELSE <<Head(s)>> \o CollapseWhitespace(Tail(s))

\* str.startswith(prefix)
StartsWith(s, prefix) ==
    Len(s) >= Len(prefix) /\ SubSeq(s, 1, Len(prefix)) = prefix

BASE_URL == <<"h", "t", "t", "p", "s", ":", "/", "/", "w", "w", "w", ".", "m", "e", "r", "c", "a", "d", "o", "l", "i", "v", "r", "e", ".", "c", "o", "m", ".", "b", "r">>
HTTP == <<"h", "t", "t", "p", ":", "/", "/">>
HTTPS == <<"h", "t", "t", "p", "s", ":", "/", "/">>

MinNameLen == 3
MinPrice == Num(1, 0)
MaxPrice == Num(1000000, 0)

\* name: Field(..., min_length=3) on the raw value, then validate_name's own
\* length test on the stripped value.
NameInvalid(v) == Len(v) < MinNameLen \/ Len(Strip(v)) < MinNameLen

validate_name(v) == Filter(CollapseWhitespace(Strip(v)), NameAllowed)

\* validate_price without its upper limit.
PriceInvalid_NoUpperLimit(v) == IsNum(v) /\ NumLt(v, MinPrice)

\* validate_price raises for a present value below 1.0 or above 1000000.
PriceInvalid(v) == IsNum(v) /\ (NumLt(v, MinPrice) \/ NumLt(MaxPrice, v))

\* <<quotient, remainder>> of n * 10^k by d, by long division (the products
\* stay within TLC's 32-bit integers).
RECURSIVE DivMod10(_, _, _)
DivMod10(n, d, k) ==
    IF k = 0 THEN <<n \div d, n % d>>
    ELSE LET p == DivMod10(n, d, k - 1)
         IN  <<p[1] * 10 + (10 * p[2]) \div d, (10 * p[2]) % d>>

\* n * 10^k / d rounded to the nearest integer, ties to even (Python round).
RoundDiv(n, d, k) ==
    LET q == DivMod10(n, d, k)[1]
        r == DivMod10(n, d, k)[2]
    IN  IF 2 * r < d THEN q
        ELSE IF 2 * r > d THEN q + 1
        ELSE IF q % 2 = 0 THEN q ELSE q + 1

\* a and b on the common scale 10^max(a.e, b.e).
Scaled(a, b) == a.m * Pow10(IF b.e > a.e THEN b.e - a.e ELSE 0)

\* round(((original - current) / original) * 100, 2), as hundredths of a percent.
DiscountOf(original, current) ==
    LET o == Scaled(original, current)
        c == Scaled(current, original)
    IN  Num(RoundDiv(o - c, o, 4), 2)

\* Python truthiness of an Optional[float]: None and 0.0 are false.
Truthy(v) == IsNum(v) /\ v.m # 0

\* validate_discount keeping the supplied value when no discount applies.
validate_discount_Mut(v, original, current) ==
    IF Truthy(original) /\ Truthy(current) /\ NumLt(current, original)
    THEN DiscountOf(original, current)
    ELSE v

\* validate_discount(cls, v, values): v is ignored.
validate_discount(v, original, current) ==
    IF Truthy(original) /\ Truthy(current) /\ NumLt(current, original)
    THEN DiscountOf(original, current)
    ELSE Num(0, 0)

validate_url(v) ==
    IF v # <<>> /\ ~StartsWith(v, HTTP) /\ ~StartsWith(v, HTTPS)
    THEN BASE_URL \o v
    ELSE v

\* Product(**data) raises ValidationError.
ProductInvalid(data) ==
    \/ NameInvalid(data.name)
    \/ PriceInvalid(data.price)
    \/ PriceInvalid(data.original_price)

\* The fields of Product(**data) when it is constructed.  `values` holds the
\* fields validated so far, so the discount is computed from the validated
\* prices.
ProductFields(data) ==
    [name                |-> validate_name(data.name),
     price               |-> data.price,
     original_price      |-> data.original_price,
     discount_percentage |-> validate_discount(data.discount_percentage,
                                               data.original_price, data.price),
     url                 |-> validate_url(data.url),
     image_url           |-> data.image_url,
     is_promotion        |-> data.is_promotion,
     free_shipping       |-> data.free_shipping,
     product_id          |-> data.product_id,
     category            |-> data.category,
     category_confidence |-> data.category_confidence]

-----------------------------------------------------------------------------
(* ProductClassifier                                                       *)

\* The letters of the keywords below; a text over other letters matches
\* none of them.
KeywordAlphabet == {"t", "v", "l", "e", "d", "o", "q", "c", "p", "s", "m", " "}

\* The letters of 'fritadeira air fryer'.
ScenarioAlphabet == {"f", "r", "i", "t", "a", "d", "e", "y", " "}

\* CATEGORY_KEYWORDS, the categories in the dict's order, each with those of
\* its keywords that are written over KeywordAlphabet or over
\* ScenarioAlphabet (the others cannot occur in a text over one of the
\* two).  Category names are written without accents.
CATEGORY_KEYWORDS ==
    <<
      [category |-> "Eletronicos, Audio e Video",
       keywords |-> {<<"t", "v">>, <<"l", "e", "d">>, <<"l", "c", "d">>, <<"o", "l", "e", "d">>, <<"q", "l", "e", "d">>, <<"s", "o", "m">>}],
      [category |-> "Celulares e Telefones",
       keywords |-> {}],
      [category |-> "Informatica",
       keywords |-> {<<"p", "c">>, <<"s", "s", "d">>, <<"m", "o", "d", "e", "m">>}],
      [category |-> "Casa, Moveis e Decoracao",
       keywords |-> {<<"m", "o", "v", "e", "l">>, <<"c", "o", "p", "o">>}],
      [category |-> "Eletrodomesticos e Casa",
       keywords |-> {}],
      [category |-> "Roupas e Calcados",
       keywords |-> {<<"t", "o", "p">>, <<"m", "o", "l", "e", "t", "o", "m">>, <<"c", "o", "l", "e", "t", "e">>, <<"p", "o", "l", "o">>}],
      [category |-> "Esportes e Fitness",
       keywords |-> {<<"p", "e", "s", "o">>}],
      [category |-> "Livros, Revistas e Comics",
       keywords |-> {}],
      [category |-> "Saude e Beleza",
       keywords |-> {<<"p", "o">>}],
      [category |-> "Games",
       keywords |-> {<<"c", "d">>, <<"d", "v", "d">>, <<"p", "e", "s">>, <<"f", "i", "f", "a">>}],
      [category |-> "Carros, Motos e Outros",
       keywords |-> {<<"o", "l", "e", "o">>, <<"m", "o", "t", "o">>}],
      [category |-> "Relogios e Joias",
       keywords |-> {}] >>

\* 'weight': 1.0 of every category.
KeywordWeight == 1

\* ML_CATEGORY_IDS: <<category id, category>>.
ML_CATEGORY_IDS ==
    { <<<<"M", "L", "B", "1", "0", "0", "0">>, "Eletronicos, Audio e Video">>,
      <<<<"M", "L", "B", "1", "0", "5", "5">>, "Celulares e Telefones">>,
      <<<<"M", "L", "B", "1", "6", "4", "8">>, "Informatica">>,
      <<<<"M", "L", "B", "1", "5", "7", "4">>, "Casa, Moveis e Decoracao">>,
      <<<<"M", "L", "B", "1", "5", "5", "6">>, "Eletrodomesticos e Casa">>,
      <<<<"M", "L", "B", "1", "4", "3", "0">>, "Roupas e Calcados">>,
      <<<<"M", "L", "B", "1", "2", "7", "6">>, "Esportes e Fitness">>,
      <<<<"M", "L", "B", "3", "0", "2", "5">>, "Livros, Revistas e Comics">>,
      <<<<"M", "L", "B", "2", "6", "3", "5", "3", "2">>, "Saude e Beleza">>,
      <<<<"M", "L", "B", "1", "1", "4", "4">>, "Games">>,
      <<<<"M", "L", "B", "1", "7", "4", "3">>, "Carros, Motos e Outros">>,
      <<<<"M", "L", "B", "1", "1", "3", "7">>, "Relogios e Joias">> }

Categories == {CATEGORY_KEYWORDS[i].category : i \in 1..Len(CATEGORY_KEYWORDS)}

\* A confidence, in hundredths.
Conf(h) == Num(h, 2)

NoCategory == [category |-> None, confidence |-> Conf(0)]

\* str.lower()
LowerChar(c) ==
    CASE c = "A" -> "a" [] c = "B" -> "b" [] c = "C" -> "c" [] c = "D" -> "d" [] c = "E" -> "e" [] c = "F" -> "f" [] c = "G" -> "g" [] c = "H" -> "h" [] c = "I" -> "i" [] c = "J" -> "j" [] c = "K" -> "k" [] c = "L" -> "l" [] c = "M" -> "m" [] c = "N" -> "n" [] c = "O" -> "o" [] c = "P" -> "p" [] c = "Q" -> "q" [] c = "R" -> "r" [] c = "S" -> "s" [] c = "T" -> "t" [] c = "U" -> "u" [] c = "V" -> "v" [] c = "W" -> "w" [] c = "X" -> "x" [] c = "Y" -> "y" [] c = "Z" -> "z"
      [] OTHER -> c

Lower(s) == [i \in 1..Len(s) |-> LowerChar(s[i])]

\* keyword in text
Contains(text, keyword) ==
    \E i \in 1..(Len(text) - Len(keyword) + 1) :
        SubSeq(text, i, i + Len(keyword) - 1) = keyword

\* The digits of s from position i on: what \d+ matches there.
RECURSIVE DigitRun(_, _)
DigitRun(s, i) ==
    IF i <= Len(s) /\ s[i] \in Digits THEN <<s[i]>> \o DigitRun(s, i + 1) ELSE <<>>

CategoryPrefix == <<"/", "c", "/", "M", "L", "B">>

\* The positions where r'/c/(MLB\d+)' matches.
CategoryMatches(url) ==
    {i \in 1..Len(url) :
        /\ i + Len(CategoryPrefix) <= Len(url)
        /\ SubSeq(url, i, i + Len(CategoryPrefix) - 1) = CategoryPrefix
        /\ url[i + Len(CategoryPrefix)] \in Digits}

\* match.group(1) of re.search: the group of the leftmost match.
CategoryGroup(url) ==
    LET i == CHOOSE k \in CategoryMatches(url) : \A j \in CategoryMatches(url) : k <= j
    IN  <<"M", "L", "B">> \o DigitRun(url, i + Len(CategoryPrefix))

\* cls.ML_CATEGORY_IDS.get(category_id)
CategoryOfId(id) ==
    IF \E p \in ML_CATEGORY_IDS : p[1] = id
    THEN (CHOOSE p \in ML_CATEGORY_IDS : p[1] = id)[2]
    ELSE None

classify_by_url(url) ==
    IF url = <<>> THEN NoCategory
    ELSE IF CategoryMatches(url) # {} /\ CategoryOfId(CategoryGroup(url)) # None
    THEN [category |-> CategoryOfId(CategoryGroup(url)), confidence |-> Conf(100)]
    ELSE NoCategory

\* keyword_matches of category number i for the text.
KeywordMatches(i, text) ==
    Cardinality({k \in CATEGORY_KEYWORDS[i].keywords : Contains(text, k)})

\* (score, keyword_matches) of a <= that of b, as Python compares tuples.
TupleLe(a, b) == a[1] < b[1] \/ (a[1] = b[1] /\ a[2] <= b[2])

\* The keyword confidence capped at 1.0 instead of 0.95.
KeywordConfidence_Mut(matches) ==
    Conf(IF 10 + matches * 15 < 100 THEN 10 + matches * 15 ELSE 100)

\* min(0.1 + (matches * 0.15), 0.95)
KeywordConfidence(matches) ==
    Conf(IF 10 + matches * 15 < 95 THEN 10 + matches * 15 ELSE 95)

\* classify_by_keywords taking the first category that has a match instead
\* of the one with the highest (score, keyword_matches).
classify_by_keywords_Mut(product_name, product_description) ==
    IF product_name = <<>> THEN NoCategory
    ELSE
    LET text_to_analyze == Lower(product_name \o <<" ">> \o product_description)
        matches(i) == KeywordMatches(i, text_to_analyze)
        scored == {i \in 1..Len(CATEGORY_KEYWORDS) : matches(i) > 0}
        best == CHOOSE i \in scored : \A j \in scored : i <= j
    IN  IF scored = {} THEN NoCategory
        ELSE [category   |-> CATEGORY_KEYWORDS[best].category,
              confidence |-> KeywordConfidence(matches(best))]

classify_by_keywords(product_name, product_description) ==
    IF product_name = <<>> THEN NoCategory
    ELSE
    LET text_to_analyze == Lower(product_name \o <<" ">> \o product_description)
        matches(i) == KeywordMatches(i, text_to_analyze)
        score(i) == <<KeywordWeight * matches(i), matches(i)>>
        \* the categories entered into category_scores
        scored == {i \in 1..Len(CATEGORY_KEYWORDS) : matches(i) > 0}
        \* max() returns the first maximal item in the dict's order
        best == CHOOSE i \in scored :
                    /\ \A j \in scored : TupleLe(score(j), score(i))
                    /\ \A j \in scored : j < i => ~TupleLe(score(i), score(j))
    IN  IF scored = {} THEN NoCategory
        ELSE [category   |-> CATEGORY_KEYWORDS[best].category,
              confidence |-> KeywordConfidence(matches(best))]

\* The by-URL result required to have a confidence above 1.0.
UrlThreshold_Full == Conf(100)

\* confidence_url > 0.8
UrlThreshold == Conf(80)

\* classify_product preferring the keyword result whenever there is one.
Reconcile_KeywordsFirst(by_url, by_keywords) ==
    IF by_keywords.category # None
    THEN [category |-> by_keywords.category, confidence |-> by_keywords.confidence,
          keywords_called |-> TRUE]
    ELSE [category |-> by_url.category, confidence |-> by_url.confidence,
          keywords_called |-> TRUE]

\* classify_product without the short-circuit: the 0.8 test applied to the
\* keyword confidence, so that a by-URL result competes with the keywords.
Reconcile_NoShortCircuit(by_url, by_keywords) ==
    LET result(r) == [category |-> r.category, confidence |-> r.confidence,
                      keywords_called |-> TRUE]
    IN  IF by_keywords.category # None /\ NumLt(UrlThreshold, by_keywords.confidence)
        THEN result(by_keywords)
        ELSE IF by_url.category # None THEN result(by_url)
        ELSE result(by_keywords)

\* classify_product ending with a default category instead of (None, 0.0).
Reconcile_Default(by_url, by_keywords) ==
    IF by_url.category # None
    THEN [category |-> by_url.category, confidence |-> by_url.confidence,
          keywords_called |-> FALSE]
    ELSE IF by_keywords.category # None
    THEN [category |-> by_keywords.category, confidence |-> by_keywords.confidence,
          keywords_called |-> TRUE]
    ELSE [category |-> "Outros", confidence |-> Conf(0), keywords_called |-> TRUE]

\* What classify_product returns once the by-URL result is known, given what
\* classify_by_keywords returns when called; keywords_called tells whether
\* the call is reached (lines 459-483).
Reconcile(by_url, by_keywords) ==
    LET result(r, called) == [category |-> r.category, confidence |-> r.confidence,
                              keywords_called |-> called]
    IN  IF by_url.category # None /\ NumLt(UrlThreshold, by_url.confidence)
        THEN result(by_url, FALSE)
        ELSE IF by_url.category # None /\ by_keywords.category # None
        THEN IF by_url.category = by_keywords.category
             THEN result([category |-> by_url.category,
                          confidence |-> IF NumLt(by_url.confidence, by_keywords.confidence)
                                         THEN by_keywords.confidence
                                         ELSE by_url.confidence], TRUE)
             ELSE IF NumLt(by_keywords.confidence, by_url.confidence)
                  THEN result(by_url, TRUE)
                  ELSE result(by_keywords, TRUE)
        ELSE IF by_url.category # None THEN result(by_url, TRUE)
        ELSE IF by_keywords.category # None THEN result(by_keywords, TRUE)
        ELSE result(NoCategory, TRUE)

ClassifyProductRun(name, url, description) ==
    Reconcile(classify_by_url(url), classify_by_keywords(name, description))

classify_product(name, url, description) ==
    [category   |-> ClassifyProductRun(name, url, description).category,
     confidence |-> ClassifyProductRun(name, url, description).confidence]

-----------------------------------------------------------------------------
(* DataProcessor: extract_product_id, is_promotion_indicator,              *)
(* has_free_shipping                                                       *)

\* The first position of a non-empty set of match positions: re.search
\* reports the leftmost match.
Leftmost(S) == CHOOSE i \in S : \A j \in S : i <= j

\* The positions where r'ML[AB]\d+' matches.
MLIdMatches(url) ==
    {i \in 1..Len(url) :
        /\ i + 3 <= Len(url)
        /\ url[i] = "M" /\ url[i + 1] = "L" /\ url[i + 2] \in {"A", "B"}
        /\ url[i + 3] \in Digits}

\* The positions where r'/p/ML[AB]\d+' matches.
PathIdMatches(url) ==
    {i \in 1..Len(url) :
        /\ i + 2 <= Len(url)
        /\ SubSeq(url, i, i + 2) = <<"/", "p", "/">>
        /\ (i + 3) \in MLIdMatches(url)}

\* Where "id" starts in a match of r'item[_-]?id[=:](\d+)' that starts at i.
ItemIdAt(url, i) ==
    IF i + 4 <= Len(url) /\ url[i + 4] \in {"_", "-"} THEN i + 5 ELSE i + 4

\* The positions where r'item[_-]?id[=:](\d+)' matches.
ItemIdMatches(url) ==
    {i \in 1..Len(url) :
        /\ i + 3 <= Len(url)
        /\ SubSeq(url, i, i + 3) = <<"i", "t", "e", "m">>
        /\ ItemIdAt(url, i) + 3 <= Len(url)
        /\ SubSeq(url, ItemIdAt(url, i), ItemIdAt(url, i) + 1) = <<"i", "d">>
        /\ url[ItemIdAt(url, i) + 2] \in {"=", ":"}
        /\ url[ItemIdAt(url, i) + 3] \in Digits}

LongIdDigits == 10

\* The positions where r'/(\d{10,})' matches.
LongIdMatches(url) ==
    {i \in 1..Len(url) : url[i] = "/" /\ Len(DigitRun(url, i + 1)) >= LongIdDigits}

\* extract_product_id raises, with the '/p/ML[AB]\d+' pattern tried first.
ProductIdRaises_PathFirst(url) ==
    url # <<>> /\ PathIdMatches(url) # {}

\* extract_product_id raises: the second pattern starts with '/', so the
\* code asks for group(1) of a pattern that has no group.
ProductIdRaises(url) ==
    url # <<>> /\ MLIdMatches(url) = {} /\ PathIdMatches(url) # {}

\* extract_product_id(url) when it returns; <<>> is None.  The patterns are
\* tried in order; group(1) is taken for a pattern starting with '/',
\* group(0), the whole match, for the others.
extract_product_id(url) ==
    IF url = <<>> THEN <<>>
    ELSE IF MLIdMatches(url) # {}
    THEN LET i == Leftmost(MLIdMatches(url))
         IN  SubSeq(url, i, i + 2) \o DigitRun(url, i + 3)
    ELSE IF ItemIdMatches(url) # {}
    THEN LET i == Leftmost(ItemIdMatches(url))
         IN  SubSeq(url, i, ItemIdAt(url, i) + 2) \o DigitRun(url, ItemIdAt(url, i) + 3)
    ELSE IF LongIdMatches(url) # {}
    THEN DigitRun(url, Leftmost(LongIdMatches(url)) + 1)
    ELSE <<>>

\* promotion_keywords.  The texts of the model are ASCII, so the keywords
\* with an accented letter ('promoção', 'liquidação', 'imperdível') occur in
\* none of them.
PromotionKeywords ==
    { <<"d", "e", "s", "c", "o", "n", "t", "o">>,
      <<"o", "f", "e", "r", "t", "a">>,
      <<"s", "a", "l", "e">>,
      <<"o", "f", "f">>,
      <<"%">>,
      <<"e", "c", "o", "n", "o", "m", "i", "z", "e">>,
      <<"b", "l", "a", "c", "k", " ", "f", "r", "i", "d", "a", "y">>,
      <<"c", "y", "b", "e", "r", " ", "m", "o", "n", "d", "a", "y">>,
      <<"q", "u", "e", "i", "m", "a">> }

is_promotion_indicator(text) ==
    text # <<>> /\ \E keyword \in PromotionKeywords : Contains(Lower(text), keyword)

\* shipping_keywords, without 'frete grátis' and 'grátis' for the same reason.
ShippingKeywords ==
    { <<"f", "r", "e", "t", "e", " ", "g", "r", "a", "t", "u", "i", "t", "o">>,
      <<"f", "r", "e", "e", " ", "s", "h", "i", "p", "p", "i", "n", "g">>,
      <<"s", "e", "m", " ", "c", "u", "s", "t", "o", " ", "d", "e", " ", "e", "n", "v", "i", "o">> }

has_free_shipping(text) ==
    text # <<>> /\ \E keyword \in ShippingKeywords : Contains(Lower(text), keyword)

-----------------------------------------------------------------------------
(* PlaywrightEngine.extract_category_from_product_page                      *)

\* A page is what the browser meets at the product's URL:
\*   ok          the response exists and its status is below 400
\*   raises      a call on the page raises (caught by the except clause)
\*   breadcrumbs for each of the 4 breadcrumb selectors, the texts of the
\*               elements it selects
\*   title       the page title
\* A category read from a page is a text; Product.category is a string, and
\* PageCategoryNames gives the string each page text of the model spells.
PageCategoryNames ==
    { << <<"G", "a", "m", "e", "s">>, "Games" >>,
      << <<"T", "e", "l", "e", "v", "i", "s", "o", "r", "e", "s">>, "Televisores" >>,
      << <<"O", "L", "E", "D">>, "OLED" >>,
      << <<>>, "" >> }

AsCategory(text) == (CHOOSE p \in PageCategoryNames : p[1] = text)[2]

\* `if category` for an Optional[str]
HasCategory(category) == category # None /\ category # ""

\* The generic breadcrumb terms; 'início' has no ASCII spelling.
GenericTerms ==
    { <<"h", "o", "m", "e">>,
      <<"m", "e", "r", "c", "a", "d", "o", " ", "l", "i", "v", "r", "e">>,
      <<"m", "l">> }

MinCategoryLen == 3

\* A breadcrumb element's text is taken as the category.
BreadcrumbUsable(text) ==
    /\ text # <<>>
    /\ Len(Strip(text)) > MinCategoryLen
    /\ Lower(Strip(text)) \notin GenericTerms

\* The usable elements of one selector's list, the first one skipped.
UsableItems(elements) ==
    {k \in 2..Len(elements) : BreadcrumbUsable(elements[k])}

\* The selectors, in order, that select more than one element and a usable one.
UsableSelectors(breadcrumbs) ==
    {s \in 1..Len(breadcrumbs) :
        Len(breadcrumbs[s]) > 1 /\ UsableItems(breadcrumbs[s]) # {}}

BreadcrumbCategory(breadcrumbs) ==
    LET elements == breadcrumbs[Leftmost(UsableSelectors(breadcrumbs))]
    IN  Strip(elements[Leftmost(UsableItems(elements))])

MERCADO_LIVRE == <<"M", "e", "r", "c", "a", "d", "o", " ", "L", "i", "v", "r", "e">>

\* The title gives a category: it names Mercado Livre, has a '|', and its
\* last part is not 'Mercado Livre' itself.
TitleUsable(title) ==
    /\ title # <<>>
    /\ Contains(Lower(title), Lower(MERCADO_LIVRE))
    /\ Count(title, "|") > 0
    /\ Strip(AfterLast(title, "|")) # MERCADO_LIVRE

\* The breadcrumb's confidence written as a percentage.
BreadcrumbConfidence_Percent == Conf(9000)

BreadcrumbConfidence == Conf(90)
TitleConfidence == Conf(60)

\* url.split('?')[0]
UrlKey(url) == BeforeFirst(url, "?")

\* category_cache is a dict: a set of entries with at most one per key.
CacheHas(cache, key) == \E e \in cache : e.url_key = key

CacheGet(cache, key) ==
    LET e == CHOOSE e \in cache : e.url_key = key
    IN  [category |-> e.category, confidence |-> e.confidence]

CachePut(cache, key, r) ==
    {e \in cache : e.url_key # key}
        \cup {[url_key |-> key, category |-> r.category, confidence |-> r.confidence]}

\* extract_category_from_product_page without the look-up in the cache.
extract_category_from_product_page_NoLookup(cache, product_url, page) ==
    LET answer(r, c) == [result |-> r, cache |-> c]
        url_key == UrlKey(product_url)
        store(r) == answer(r, CachePut(cache, url_key, r))
    IN  IF product_url = <<>> THEN answer(NoCategory, cache)
        ELSE IF page.raises THEN store(NoCategory)
        ELSE IF ~page.ok THEN answer(NoCategory, cache)
        ELSE IF UsableSelectors(page.breadcrumbs) # {}
        THEN store([category   |-> AsCategory(BreadcrumbCategory(page.breadcrumbs)),
                    confidence |-> BreadcrumbConfidence])
        ELSE IF TitleUsable(page.title)
        THEN store([category   |-> AsCategory(Strip(AfterLast(page.title, "|"))),
                    confidence |-> TitleConfidence])
        ELSE store(NoCategory)

\* extract_category_from_product_page(product_url) on an engine whose cache
\* is `cache` and whose browser meets `page`: the returned pair and the cache
\* afterwards.
extract_category_from_product_page(cache, product_url, page) ==
    LET answer(r, c) == [result |-> r, cache |-> c]
        url_key == UrlKey(product_url)
        store(r) == answer(r, CachePut(cache, url_key, r))
    IN  IF product_url = <<>> THEN answer(NoCategory, cache)
        ELSE IF CacheHas(cache, url_key) THEN answer(CacheGet(cache, url_key), cache)
        ELSE IF page.raises THEN store(NoCategory)
        ELSE IF ~page.ok THEN answer(NoCategory, cache)
        ELSE IF UsableSelectors(page.breadcrumbs) # {}
        THEN store([category   |-> AsCategory(BreadcrumbCategory(page.breadcrumbs)),
                    confidence |-> BreadcrumbConfidence])
        ELSE IF TitleUsable(page.title)
        THEN store([category   |-> AsCategory(Strip(AfterLast(page.title, "|"))),
                    confidence |-> TitleConfidence])
        ELSE store(NoCategory)

-----------------------------------------------------------------------------
(* PlaywrightEngine._extract_single_product                                 *)

\* An element is what the selectors find in a fragment.  For each selector
\* of a list, in the code's order, <<>> when select_one finds nothing and
\* <<text>> when it finds an element with that text (or href):
\*   names      the 6 name_selectors       prices  the 5 price_selectors
\*   originals  the 6 original_selectors   links   the 4 link_selectors
\* and image is the src of the image, text is element.get_text().
NameSelectors == 6
PriceSelectors == 5
OriginalSelectors == 6
LinkSelectors == 4

MinTitleLen == 10
SkipWords ==
    { <<"e", "c", "o", "n", "o", "m", "i", "z", "a">>,
      <<"c", "o", "n", "f", "i", "r", "a">>,
      <<"o", "f", "e", "r", "t", "a", "s">> }

\* A found text is taken as the product's name.
NameUsable(text) ==
    /\ text # <<>>
    /\ Len(text) > MinTitleLen
    /\ ~ \E skip \in SkipWords : Contains(Lower(text), skip)

\* The name loop: the first usable text, <<>> (None) when there is none.
FindName(names) ==
    LET usable == {i \in 1..Len(names) : names[i] # <<>> /\ NameUsable(names[i][1])}
    IN  IF usable = {} THEN <<>> ELSE names[Leftmost(usable)][1]

PriceFloor == Num(10, 0)

\* `if price and price > 10: break`
PriceAccepted(price) == Truthy(price) /\ NumLt(PriceFloor, price)

\* The price loop from selector i on: `price` is assigned at every selector
\* that finds an element and the loop stops at the first accepted value.
\* `evaluated` collects the selectors whose text was parsed.
RECURSIVE PriceLoop(_, _, _, _)
PriceLoop(prices, i, price, evaluated) ==
    IF i > Len(prices) THEN [price |-> price, evaluated |-> evaluated]
    ELSE IF prices[i] = <<>> THEN PriceLoop(prices, i + 1, price, evaluated)
    ELSE IF PriceAccepted(clean_price(prices[i][1]))
    THEN [price |-> clean_price(prices[i][1]), evaluated |-> evaluated \cup {i}]
    ELSE PriceLoop(prices, i + 1, clean_price(prices[i][1]), evaluated \cup {i})

\* An original-price candidate accepted whatever the current price is.
AcceptsOriginal_Mut(potential_original, price) ==
    Truthy(potential_original) /\ NumLt(PriceFloor, potential_original)

\* The test on an original-price candidate: above 10 and either above the
\* current price or there is no current price.
AcceptsOriginal(potential_original, price) ==
    /\ Truthy(potential_original) /\ NumLt(PriceFloor, potential_original)
    /\ \/ Truthy(price) /\ NumLt(price, potential_original)
       \/ ~Truthy(price)

\* The original-price loop: the first accepted candidate, None when none is.
OriginalLoop(originals, price) ==
    LET accepted == {i \in 1..Len(originals) :
                        /\ originals[i] # <<>>
                        /\ AcceptsOriginal(clean_price(originals[i][1]), price)}
    IN  IF accepted = {} THEN NoNum
        ELSE clean_price(originals[Leftmost(accepted)][1])

ML == <<"M", "L">>
PATH_P == <<"/", "p", "/">>
HTTP_PREFIX == <<"h", "t", "t", "p">>

\* The link loop: the first href naming a product, made absolute.
FindUrl(links) ==
    LET usable == {i \in 1..Len(links) :
                      /\ links[i] # <<>>
                      /\ links[i][1] # <<>>
                      /\ (Contains(links[i][1], ML) \/ Contains(links[i][1], PATH_P))}
        href == links[Leftmost(usable)][1]
    IN  IF usable = {} THEN <<>>
        ELSE IF StartsWith(href, HTTP_PREFIX) THEN href ELSE BASE_URL \o href

\* The mandatory check without the price.
HasRequired_Mut(name, price, product_url) ==
    name # <<>> /\ product_url # <<>>

\* all([name, price, product_url])
HasRequired(name, price, product_url) ==
    name # <<>> /\ Truthy(price) /\ product_url # <<>>

MaxUrlLen == 200
RealThreshold == Conf(80)

\* The choice without the test on the page's confidence: the higher
\* confidence wins.
ChooseClassification_Highest(real, fallback) ==
    IF HasCategory(fallback.category) /\ NumLt(real.confidence, fallback.confidence)
    THEN fallback
    ELSE IF HasCategory(real.category) THEN real
    ELSE fallback

\* "Escolher melhor classificação": the pair put into the record.
ChooseClassification(real, fallback) ==
    IF HasCategory(real.category) /\ NumLt(RealThreshold, real.confidence) THEN real
    ELSE IF HasCategory(fallback.category) /\ NumLt(real.confidence, fallback.confidence)
    THEN fallback
    ELSE IF HasCategory(real.category) THEN real
    ELSE fallback

\* What one call of _extract_single_product does on an engine whose cache is
\* `cache`:
\*   product     <<>> when it returns None, <<the Product's fields>> otherwise
\*   name, price, original_price, url   the locals when the call ends
\*   evaluated   the price selectors whose text was parsed
\*   classified  the call reached the classification step
\*   real, fallback   the two classifications it chose between
\*   cache       category_cache afterwards
ExtractRun(element, page, cache) ==
    LET name == FindName(element.names)
        found == PriceLoop(element.prices, 1, NoNum, {})
        price == found.price
        original_price == OriginalLoop(element.originals, price)
        product_url == FindUrl(element.links)
        is_promotion == \/ is_promotion_indicator(element.text)
                        \/ IsNum(original_price)
                        \/ Contains(Lower(element.text), <<"o", "f", "f">>)
        free_shipping == has_free_shipping(element.text)
        visit == IF product_url # <<>> /\ Len(product_url) < MaxUrlLen
                 THEN extract_category_from_product_page(cache, product_url, page)
                 ELSE [result |-> NoCategory, cache |-> cache]
        fallback == classify_product(name, product_url, <<>>)
        chosen == ChooseClassification(visit.result, fallback)
        data ==
            [name                |-> name,
             price               |-> price,
             original_price      |-> original_price,
             discount_percentage |-> Num(0, 0),
             url                 |-> product_url,
             image_url           |-> element.image,
             is_promotion        |-> is_promotion,
             free_shipping       |-> free_shipping,
             product_id          |-> extract_product_id(product_url),
             category            |-> chosen.category,
             category_confidence |-> chosen.confidence]
    IN  IF name = <<>>
        THEN [product |-> <<>>, name |-> name, price |-> NoNum,
              original_price |-> NoNum, url |-> <<>>, evaluated |-> {},
              classified |-> FALSE, real |-> NoCategory, fallback |-> NoCategory,
              cache |-> cache]
        ELSE IF ~HasRequired(name, price, product_url)
        THEN [product |-> <<>>, name |-> name, price |-> price,
              original_price |-> original_price, url |-> product_url,
              evaluated |-> found.evaluated, classified |-> FALSE,
              real |-> NoCategory, fallback |-> NoCategory, cache |-> cache]
        ELSE [product |-> IF ProductIdRaises(product_url) \/ ProductInvalid(data)
                          THEN <<>>
                          ELSE <<ProductFields(data)>>,
              name |-> name, price |-> price, original_price |-> original_price,
              url |-> product_url, evaluated |-> found.evaluated,
              classified |-> TRUE, real |-> visit.result, fallback |-> fallback,
              cache |-> visit.cache]

-----------------------------------------------------------------------------
(* Product: construction                                                   *)

\* Product(**product_data): the object, or ValidationError.
Construct ==
    /\ product_data # <<>>
    /\ product = <<>>
    /\ ~product_error
    /\ IF ProductInvalid(product_data[1])
       THEN product' = <<>> /\ product_error' = TRUE
       ELSE product' = <<ProductFields(product_data[1])>> /\ product_error' = FALSE
    /\ UNCHANGED <<product_data, notProduct>>

-----------------------------------------------------------------------------
(* ProductClassifier: the calls                                            *)

ClassifyByKeywords ==
    /\ kw_result = <<>>
    /\ kw_result' = <<classify_by_keywords(kw_name, kw_description)>>
    /\ UNCHANGED <<kw_name, kw_description, notKw>>

ClassifyProduct ==
    /\ cls_result = <<>>
    /\ cls_result' = <<classify_product(cls_name, cls_url, cls_description)>>
    /\ cls_keywords_called' =
           ClassifyProductRun(cls_name, cls_url, cls_description).keywords_called
    /\ UNCHANGED <<cls_name, cls_url, cls_description, notCls>>

-----------------------------------------------------------------------------
(* PlaywrightEngine: the call                                               *)

\* _extract_single_product(element), with the visit of the product's page
\* and the update of category_cache it makes.
ExtractSingleProduct ==
    /\ ext_element # <<>>
    /\ ext_run = <<>>
    /\ \E run \in {ExtractRun(ext_element[1], ext_page[1], category_cache)} :
           /\ ext_run' = <<[f \in DOMAIN run \ {"cache"} |-> run[f]]>>
           /\ category_cache' = run.cache
    /\ UNCHANGED <<ext_element, ext_page, notExt>>

-----------------------------------------------------------------------------
(* DataProcessor.extract_product_id: the call                               *)

\* The call either raises or returns an id (<<>> is None).
ExtractProductId ==
    /\ pid_result = <<>>
    /\ pid_result' = <<[raised |-> ProductIdRaises(pid_url),
                        id     |-> IF ProductIdRaises(pid_url) THEN <<>>
                                   ELSE extract_product_id(pid_url)]>>
    /\ UNCHANGED <<pid_url, notPid>>

-----------------------------------------------------------------------------
(* ScraperCache: _generate_cache_key, cache_search_results,                *)
(* get_cached_search                                                       *)

\* A params dict is the sequence of its items in insertion order, each item
\* <<key, value>>, no key twice.  A key is a text over lower-case letters; a
\* value is a JSON scalar, [kind |-> "str", s |-> text, n |-> 0] or
\* [kind |-> "int", s |-> <<>>, n |-> number].
LowerAscii ==
    <<"a", "b", "c", "d", "e", "f", "g", "h", "i", "j", "k", "l", "m",
      "n", "o", "p", "q", "r", "s", "t", "u", "v", "w", "x", "y", "z">>

\* The place of a character in code-point order.
Ord(c) == CHOOSE i \in 1..Len(LowerAscii) : LowerAscii[i] = c

\* a < b for two str keys: the first differing character decides, a proper
\* prefix comes first.
RECURSIVE KeyLt(_, _)
KeyLt(a, b) ==
    IF b = <<>> THEN FALSE
    ELSE IF a = <<>> THEN TRUE
    ELSE IF Head(a) = Head(b) THEN KeyLt(Tail(a), Tail(b))
    ELSE Ord(Head(a)) < Ord(Head(b))

DigitChars == <<"0", "1", "2", "3", "4", "5", "6", "7", "8", "9">>

\* str(n) for a natural number.
RECURSIVE NatText(_)
NatText(n) ==
    IF n < 10 THEN <<DigitChars[n + 1]>>
    ELSE NatText(n \div 10) \o <<DigitChars[(n % 10) + 1]>>

\* The items in the order sorted(params.items()) gives them.
SortedItems(params) ==
    [i \in 1..Len(params) |->
        CHOOSE item \in {params[k] : k \in 1..Len(params)} :
            Cardinality({k \in 1..Len(params) : KeyLt(params[k][1], item[1])}) = i - 1]

JsonScalar(value) ==
    IF value.kind = "str" THEN <<"\"">> \o value.s \o <<"\"">> ELSE NatText(value.n)

RECURSIVE JsonItems(_)
JsonItems(items) ==
    IF items = <<>> THEN <<>>
    ELSE <<"\"">> \o Head(items)[1] \o <<"\"", ":", " ">> \o JsonScalar(Head(items)[2])
         \o (IF Tail(items) = <<>> THEN <<>> ELSE <<",", " ">>)
         \o JsonItems(Tail(items))

\* json.dumps(params, sort_keys=sort_keys) for a dict of scalars.
JsonDumps(params, sort_keys) ==
    <<"{">> \o JsonItems(IF sort_keys THEN SortedItems(params) ELSE params) \o <<"}">>

\* hashlib.md5(data.encode()).hexdigest(): the digest is a function of the
\* data and is named here by the data it digests.
md5(data) == [hexdigest_of |-> data]

\* The key made from the items in insertion order.
_generate_cache_key_Unsorted(query_type, params) ==
    md5(query_type \o <<":">> \o JsonDumps(params, FALSE))

_generate_cache_key(query_type, params) ==
    md5(query_type \o <<":">> \o JsonDumps(params, TRUE))

ttl_hours == 2

\* datetime.now(): the local wall clock, naive.  The clock counts hours.
LocalNow == utc_now + tz_offset

\* datetime('now') in SQL: UTC.
SqlNow == utc_now

\* `expires_at > datetime('now')`: SQLite compares the two texts.  The
\* stored text ends with the microseconds of the store, datetime('now')
\* has none, so within the same second the stored text is the greater.
Unexpired(row) == row.expires_at >= SqlNow

\* product.dict() written by json.dumps and read back by json.loads: the
\* values of the fields under the same keys.
ProductDict(p) ==
    [name                |-> p.name,
     price               |-> p.price,
     original_price      |-> p.original_price,
     discount_percentage |-> p.discount_percentage,
     url                 |-> p.url,
     image_url           |-> p.image_url,
     is_promotion        |-> p.is_promotion,
     free_shipping       |-> p.free_shipping,
     product_id          |-> p.product_id,
     category            |-> p.category,
     category_confidence |-> p.category_confidence]

\* [Product(**data) for data in products_data] raises.
LoadRaises(products_data) ==
    \E i \in 1..Len(products_data) : ProductInvalid(products_data[i])

LoadProducts(products_data) ==
    [i \in 1..Len(products_data) |-> ProductFields(products_data[i])]

\* INSERT OR REPLACE on a cache_key column that is not UNIQUE: nothing
\* conflicts and the row is added.
InsertOrReplace_NoUnique(table, row) ==
    table \cup {row}

\* INSERT OR REPLACE on the UNIQUE column cache_key.
InsertOrReplace(table, row) ==
    {r \in table : r.cache_key # row.cache_key} \cup {row}

\* cache_search_results(query_type, params, products)
CacheSearchResults(query_type, params, products) ==
    /\ search_cache' = InsertOrReplace(search_cache,
           [cache_key     |-> _generate_cache_key(query_type, params),
            query_type    |-> query_type,
            query_params  |-> JsonDumps(params, FALSE),
            products_json |-> [i \in 1..Len(products) |-> ProductDict(products[i])],
            created_at    |-> SqlNow,
            expires_at    |-> LocalNow + ttl_hours])
    /\ UNCHANGED <<utc_now, tz_offset, cache_reply, notCache>>

\* get_cached_search(query_type, params): the list, or None (<<>> in
\* `result`) when no unexpired row has the key or the rows's products do not
\* load.
GetCachedSearch(query_type, params) ==
    /\ LET cache_key == _generate_cache_key(query_type, params)
           rows == {r \in search_cache : r.cache_key = cache_key /\ Unexpired(r)}
       IN  cache_reply' =
               <<[query_type |-> query_type,
                  params     |-> params,
                  result     |-> IF rows = {} THEN <<>>
                                 ELSE LET row == CHOOSE r \in rows : TRUE
                                      IN  IF LoadRaises(row.products_json) THEN <<>>
                                          ELSE <<LoadProducts(row.products_json)>>]>>
    /\ UNCHANGED <<search_cache, utc_now, tz_offset, notCache>>

\* cleanup_old_cache(days_old): the rows of search_cache whose expires_at
\* text is below datetime('now') are deleted (the other statement deletes
\* from product_history, which no lookup reads).
CleanupOldCache ==
    /\ search_cache' = {r \in search_cache : ~(r.expires_at < SqlNow)}
    /\ UNCHANGED <<utc_now, tz_offset, cache_reply, notCache>>

\* Time passes.
Tick ==
    /\ utc_now < MaxClock
    /\ utc_now' = utc_now + 1
    /\ UNCHANGED <<search_cache, tz_offset, cache_reply, notCache>>

-----------------------------------------------------------------------------
(* ModernScraperCLI.save_products, AffiliateManager.load_products_from_file *)

\* The 'produtos' list save_products writes, as json.load reads it back:
\* one object per product under the file's own keys ('numero' and
\* 'coletado_em' are not read again).
SaveProductsData(products) ==
    [i \in 1..Len(products) |->
        [numero              |-> i,
         nome                |-> products[i].name,
         categoria           |-> products[i].category,
         categoria_confianca |-> products[i].category_confidence,
         preco               |-> products[i].price,
         preco_original      |-> products[i].original_price,
         desconto_percentual |-> products[i].discount_percentage,
         url_completa        |-> products[i].url,
         produto_id          |-> products[i].product_id,
         imagem_url          |-> products[i].image_url,
         frete_gratis        |-> products[i].free_shipping,
         em_promocao         |-> products[i].is_promotion]]

\* The keyword arguments load_products_from_file gives Product for one
\* object of the file; discount_percentage is not passed and takes the
\* field's default.
LoadArguments(entry) ==
    [name                |-> entry.nome,
     price               |-> entry.preco,
     original_price      |-> entry.preco_original,
     discount_percentage |-> Num(0, 0),
     url                 |-> entry.url_completa,
     image_url           |-> entry.imagem_url,
     is_promotion        |-> entry.em_promocao,
     free_shipping       |-> entry.frete_gratis,
     product_id          |-> entry.produto_id,
     category            |-> entry.categoria,
     category_confidence |-> entry.categoria_confianca]

\* The loop of load_products_from_file: an object whose Product raises is
\* reported and skipped.
RECURSIVE LoadFromFile(_)
LoadFromFile(produtos) ==
    IF produtos = <<>> THEN <<>>
    ELSE (IF ProductInvalid(LoadArguments(Head(produtos))) THEN <<>>
          ELSE <<ProductFields(LoadArguments(Head(produtos)))>>)
         \o LoadFromFile(Tail(produtos))

\* save_products(products, search_type); nothing is written for an empty list.
SaveProducts ==
    /\ rt_products # <<>>
    /\ rt_saved = <<>>
    /\ rt_saved' = <<[to |-> "file", data |-> SaveProductsData(rt_products)]>>
    /\ UNCHANGED <<rt_products, rt_loaded, notStore>>

\* cache_search_results: the row's products_json.
SaveToCache ==
    /\ rt_saved = <<>>
    /\ rt_saved' = <<[to |-> "cache",
                      data |-> [i \in 1..Len(rt_products) |-> ProductDict(rt_products[i])]]>>
    /\ UNCHANGED <<rt_products, rt_loaded, notStore>>

\* load_products_from_file(filepath): the list of the products that load.
LoadProductsFromFile ==
    /\ rt_saved # <<>> /\ rt_saved[1].to = "file"
    /\ rt_loaded = <<>>
    /\ rt_loaded' = <<[products |-> <<LoadFromFile(rt_saved[1].data)>>]>>
    /\ UNCHANGED <<rt_products, rt_saved, notStore>>

\* get_cached_search on the row: the list, or None (<<>>) when a product
\* does not load.
LoadFromCache ==
    /\ rt_saved # <<>> /\ rt_saved[1].to = "cache"
    /\ rt_loaded = <<>>
    /\ rt_loaded' = <<[products |-> IF LoadRaises(rt_saved[1].data) THEN <<>>
                                    ELSE <<LoadProducts(rt_saved[1].data)>>]>>
    /\ UNCHANGED <<rt_products, rt_saved, notStore>>

-----------------------------------------------------------------------------
(* Product: attribute assignment                                           *)

\* product.<field> = value.  The model class sets no validate_assignment,
\* so the attribute is set and no validator runs.
Assign(field, value) ==
    /\ product # <<>>
    /\ product' = <<[product[1] EXCEPT ![field] = value]>>
    /\ UNCHANGED <<product_data, product_error, notProduct>>

-----------------------------------------------------------------------------
(* PlaywrightEngine.extract_products_from_page                              *)

\* A fragment of the listing is what its selectors find (element), what the
\* browser meets at the product's own page (page), and whether a step of
\* the extraction throws on it (throws).

\* _extract_single_product whose except clause lets the exception through.
ExtractSingle_Propagates(fragment, cache) ==
    IF fragment.throws THEN [raised |-> TRUE, product |-> <<>>, cache |-> cache]
    ELSE [raised  |-> FALSE,
          product |-> ExtractRun(fragment.element, fragment.page, cache).product,
          cache   |-> ExtractRun(fragment.element, fragment.page, cache).cache]

\* _extract_single_product with its try / except Exception: return None.
\* `raised` tells whether the call raises, `product` is <<>> for None.
ExtractSingle(fragment, cache) ==
    IF fragment.throws THEN [raised |-> FALSE, product |-> <<>>, cache |-> cache]
    ELSE [raised  |-> FALSE,
          product |-> ExtractRun(fragment.element, fragment.page, cache).product,
          cache   |-> ExtractRun(fragment.element, fragment.page, cache).cache]

ProductSelectors == 6
ElementLimit == 50

\* The elements the loop goes through: those of the first product selector
\* that selects more than one, at most 50 of them; none when no selector does.
PageElements(selections) ==
    LET usable == {s \in 1..ProductSelectors : Len(selections[s]) > 1}
    IN  IF usable = {} THEN <<>>
        ELSE SubSeq(selections[Leftmost(usable)], 1,
                    IF Len(selections[Leftmost(usable)]) < ElementLimit
                    THEN Len(selections[Leftmost(usable)]) ELSE ElementLimit)

\* What the page function leaves alone besides its own variables and the
\* engine's category_cache.
notPageNorCache ==
    <<priceVars, productVars, kwVars, clsVars, ext_element, ext_page, ext_run,
      pidVars, cacheVars, storeVars, catVars, searchVars, affVars>>

\* extract_products_from_page when the page does not load or no selector
\* selects more than one element: the empty list.
ExtractNoProducts ==
    /\ pg_input # <<>>
    /\ pg_returned = <<>>
    /\ ~pg_input[1].navigates \/ PageElements(pg_input[1].selections) = <<>>
    /\ pg_returned' = << <<>> >>
    /\ UNCHANGED <<pg_input, pg_pos, pg_products, category_cache, notPageNorCache>>

\* One turn of the loop: the awaited _extract_single_product on the next
\* element, the append, and the return after the last element.  A call
\* that raised would end the function in its own except clause, with [].
ExtractNextFragment ==
    /\ pg_input # <<>>
    /\ pg_returned = <<>>
    /\ pg_input[1].navigates
    /\ pg_pos < Len(PageElements(pg_input[1].selections))
    /\ \E out \in {ExtractSingle(PageElements(pg_input[1].selections)[pg_pos + 1],
                                 category_cache)} :
          \E products \in {IF out.product # <<>>
                           THEN Append(pg_products, out.product[1])
                           ELSE pg_products} :
             IF out.raised
             THEN /\ pg_returned' = << <<>> >>
                  /\ UNCHANGED <<pg_pos, pg_products, category_cache>>
             ELSE /\ pg_pos' = pg_pos + 1
                  /\ pg_products' = products
                  /\ category_cache' = out.cache
                  /\ pg_returned' =
                         IF pg_pos + 1 = Len(PageElements(pg_input[1].selections))
                         THEN <<products>> ELSE <<>>
    /\ UNCHANGED <<pg_input, notPageNorCache>>

-----------------------------------------------------------------------------
(* PlaywrightEngine.extract_category_from_product_page: the calls           *)

\* What a call leaves alone besides cat_call and the engine's category_cache.
notCatNorCache ==
    <<priceVars, productVars, kwVars, clsVars, ext_element, ext_page, ext_run,
      pidVars, cacheVars, storeVars, pageVars, searchVars, affVars>>

\* await self.extract_category_from_product_page(product_url) while the
\* browser meets `page`.
ExtractCategory(product_url, page) ==
    /\ \E r \in {extract_category_from_product_page(category_cache, product_url, page)} :
          /\ category_cache' = r.cache
          /\ cat_call' = <<[product_url |-> product_url, page |-> page,
                            result |-> r.result]>>
    /\ UNCHANGED notCatNorCache

-----------------------------------------------------------------------------
(* ModernScraperCLI.search_by_term: the products found are stored           *)

\* `if products:` after the engine's search: the list goes to
\* cache_search_results and save_products.
StoreFound ==
    /\ pg_returned # <<>>
    /\ pg_returned[1] # <<>>
    /\ rt_products = <<>>
    /\ rt_products' = pg_returned[1]
    /\ UNCHANGED <<rt_saved, rt_loaded, notStore>>

-----------------------------------------------------------------------------
(* PlaywrightEngine: search_products, search_category, search_offers and   *)
(* their _with_progress variants                                           *)

\* str.split(): the words of s, separated by runs of whitespace.
RECURSIVE SplitWords(_)
SplitWords(s) ==
    LET t == LStrip(s)
        n == IF \E i \in 1..Len(t) : t[i] \in Whitespace
             THEN (CHOOSE i \in 1..Len(t) :
                      t[i] \in Whitespace /\ \A j \in 1..(i - 1) : t[j] \notin Whitespace) - 1
             ELSE Len(t)
    IN  IF t = <<>> THEN <<>>
        ELSE <<SubSeq(t, 1, n)>> \o SplitWords(SubSeq(t, n + 1, Len(t)))

\* One product of _filter_relevant_products' loop is kept: at least half of
\* the words of the term occur in its name, or the whole term does, or the
\* first word does.
Relevant(name, search_term) ==
    LET search_words == SplitWords(Lower(search_term))
        product_name == Lower(name)
        matches == Cardinality({k \in 1..Len(search_words) :
                                   Contains(product_name, search_words[k])})
    IN  \/ 2 * matches >= Len(search_words)
        \/ Contains(product_name, Lower(search_term))
        \/ (search_words # <<>> /\ Contains(product_name, search_words[1]))

\* matches / len(search_words) divides by zero: the term is not empty, has
\* no word, and a product has a name.
FilterRaises(products, search_term) ==
    /\ search_term # <<>>
    /\ SplitWords(Lower(search_term)) = <<>>
    /\ \E i \in 1..Len(products) : products[i].name # <<>>

RECURSIVE _filter_relevant_products(_, _)
_filter_relevant_products(products, search_term) ==
    IF search_term = <<>> \/ products = <<>> THEN products
    ELSE IF Head(products).name # <<>> /\ Relevant(Head(products).name, search_term)
    THEN <<Head(products)>> \o _filter_relevant_products(Tail(products), search_term)
    ELSE _filter_relevant_products(Tail(products), search_term)

\* [p for p in page_products if p.original_price and p.discount_percentage > 0]
RECURSIVE PromotionProducts(_)
PromotionProducts(products) ==
    IF products = <<>> THEN <<>>
    ELSE IF Truthy(Head(products).original_price)
            /\ NumLt(Num(0, 0), Head(products).discount_percentage)
    THEN <<Head(products)>> \o PromotionProducts(Tail(products))
    ELSE PromotionProducts(Tail(products))

\* The six search functions.
SearchFunctions ==
    {"search_products", "search_products_with_progress",
     "search_category", "search_category_with_progress",
     "search_offers", "search_offers_with_progress"}

\* `page_num <= 5`
PageLimit == 5

\* What a function adds to products from a page that has some.
Collected(call, page_products) ==
    IF call.function = "search_products_with_progress"
    THEN _filter_relevant_products(page_products, call.query)
    ELSE IF call.function \in {"search_offers", "search_offers_with_progress"}
    THEN PromotionProducts(page_products)
    ELSE page_products

\* products[:max_products], for max_products >= 0
Truncated(products, max_products) ==
    SubSeq(products, 1, IF Len(products) < max_products THEN Len(products) ELSE max_products)

\* The function searches a category and _find_category_id found none.
CategoryMissing(call) ==
    /\ call.function \in {"search_category", "search_category_with_progress"}
    /\ call.category_id = None

\* The loop condition without the limit on page_num.
LoopContinues_NoPageLimit(call) ==
    Len(srch_products) < call.max_products

\* `while len(products) < max_products and page_num <= 5`
LoopContinues(call) ==
    Len(srch_products) < call.max_products /\ srch_page_num <= PageLimit

\* search_category*: `if not category_id: return []`
SearchNoCategory ==
    /\ srch_call # <<>>
    /\ srch_result = <<>>
    /\ CategoryMissing(srch_call[1])
    /\ srch_result' = <<[raised |-> FALSE, products |-> <<>>]>>
    /\ UNCHANGED <<srch_call, srch_products, srch_page_num, srch_fetches, srch_empty, notSearch>>

\* One turn of the loop, up to the sleep that ends it: the awaited
\* extract_products_from_page(url) returns page_products; an empty list
\* breaks the loop and the function returns; otherwise what the function
\* keeps of the page is added and page_num increases.
SearchPage(page_products) ==
    /\ srch_call # <<>>
    /\ srch_result = <<>>
    /\ ~CategoryMissing(srch_call[1])
    /\ LoopContinues(srch_call[1])
    /\ srch_fetches' = srch_fetches + 1
    /\ IF page_products = <<>>
       THEN /\ srch_empty' = TRUE
            /\ srch_result' = <<[raised   |-> FALSE,
                                 products |-> Truncated(srch_products, srch_call[1].max_products)]>>
            /\ UNCHANGED <<srch_products, srch_page_num>>
       ELSE IF /\ srch_call[1].function = "search_products_with_progress"
               /\ FilterRaises(page_products, srch_call[1].query)
       THEN /\ srch_result' = <<[raised |-> TRUE, products |-> <<>>]>>
            /\ UNCHANGED <<srch_products, srch_page_num, srch_empty>>
       ELSE /\ srch_products' = srch_products \o Collected(srch_call[1], page_products)
            /\ srch_page_num' = srch_page_num + 1
            /\ UNCHANGED <<srch_empty, srch_result>>
    /\ UNCHANGED <<srch_call, notSearch>>

\* The loop condition fails: return products[:max_products].
SearchReturn ==
    /\ srch_call # <<>>
    /\ srch_result = <<>>
    /\ ~CategoryMissing(srch_call[1])
    /\ ~LoopContinues(srch_call[1])
    /\ srch_result' = <<[raised   |-> FALSE,
                         products |-> Truncated(srch_products, srch_call[1].max_products)]>>
    /\ UNCHANGED <<srch_call, srch_products, srch_page_num, srch_fetches, srch_empty, notSearch>>

-----------------------------------------------------------------------------
(* PlaywrightEngine: generate_affiliate_links_batch_single_request,        *)
(* generate_affiliate_links_batch                                          *)

\* str.strip() of a text that may hold line ends.
LineSpace == {" ", "\n"}

StripLines(s) ==
    LET kept == {i \in 1..Len(s) : s[i] \notin LineSpace}
    IN  IF kept = {} THEN <<>>
        ELSE SubSeq(s, CHOOSE i \in kept : \A j \in kept : i <= j,
                       CHOOSE i \in kept : \A j \in kept : j <= i)

\* str.split('\n')
RECURSIVE SplitLines(_)
SplitLines(s) ==
    IF \E i \in 1..Len(s) : s[i] = "\n"
    THEN <<BeforeFirst(s, "\n")>>
             \o SplitLines(SubSeq(s, Len(BeforeFirst(s, "\n")) + 2, Len(s)))
    ELSE <<s>>

\* line.startswith("http")
StartsWithHttp(line) ==
    Len(line) >= 4 /\ SubSeq(line, 1, 4) = <<"h", "t", "t", "p">>

\* The loop over the lines: each one stripped, kept when not empty and
\* starting with "http".
RECURSIVE KeptLinks(_)
KeptLinks(lines) ==
    IF lines = <<>> THEN <<>>
    ELSE IF StripLines(Head(lines)) # <<>> /\ StartsWithHttp(StripLines(Head(lines)))
    THEN <<StripLines(Head(lines))>> \o KeptLinks(Tail(lines))
    ELSE KeptLinks(Tail(lines))

\* affiliate_links of a non-empty generated_content
AffiliateLinks(generated_content) ==
    KeptLinks(SplitLines(StripLines(generated_content)))

max_retries == 2

\* The retry without a limit on retry_count.
RetryAllowed_Always(retry_count) == TRUE

\* `if retry_count < max_retries`
RetryAllowed(retry_count) == retry_count < max_retries

\* How an attempt on the page can go:
\*   no_textarea     query_selector_all("textarea") finds none
\*   textarea_error  looking for the textarea raises
\*   input_error     a click, fill or wait raises (the outer except)
\*   no_button       none of the generate_button_selectors finds a button
\*   one_textarea    fewer than 2 textareas when the result is read
\*   result_error    reading the result raises
\*   content         the second textarea holds `content`
FailureKinds ==
    {"no_textarea", "textarea_error", "input_error", "no_button",
     "one_textarea", "result_error"}

\* The attempt ends the call with [] (the retry is decided elsewhere).
AttemptFails(outcome) ==
    outcome.kind \in FailureKinds \/ outcome.content = <<>>

\* `len(affiliate_links) < len(product_urls)` for the content of an attempt
\* that did not fail.
Incomplete(outcome, product_urls) ==
    Len(AffiliateLinks(outcome.content)) < Len(product_urls)

\* generate_affiliate_links_batch_single_request(product_urls, retry_count):
\* one call, up to its return or to the recursive call it awaits.
SingleRequest(outcome) ==
    /\ aff_urls # <<>>
    /\ aff_links = <<>>
    /\ IF aff_urls[1] = <<>>
       THEN /\ aff_links' = << <<>> >>
            /\ UNCHANGED <<aff_retry_count, aff_attempts, aff_last>>
       ELSE /\ aff_attempts' = aff_attempts + 1
            /\ aff_last' = <<outcome>>
            /\ IF AttemptFails(outcome)
               THEN aff_links' = << <<>> >> /\ UNCHANGED aff_retry_count
               ELSE IF Incomplete(outcome, aff_urls[1]) /\ RetryAllowed(aff_retry_count)
               THEN aff_retry_count' = aff_retry_count + 1 /\ UNCHANGED aff_links
               ELSE aff_links' = <<AffiliateLinks(outcome.content)>>
                    /\ UNCHANGED aff_retry_count
    /\ UNCHANGED <<aff_products, aff_results, aff_urls, notAff>>

\* results as generate_affiliate_links_batch creates it (processed_at, the
\* time of the call, is left out).
EmptyResults ==
    [success_count |-> 0, error_count |-> 0, links |-> {}, product_mapping |-> <<>>]

\* [p for p in products if p.url and p.url.strip()]
RECURSIVE ValidProducts(_)
ValidProducts(products) ==
    IF products = <<>> THEN <<>>
    ELSE IF Head(products).url # <<>> /\ Strip(Head(products).url) # <<>>
    THEN <<Head(products)>> \o ValidProducts(Tail(products))
    ELSE ValidProducts(Tail(products))

\* The entry of product_mapping for valid product number i; url_afiliado is
\* <<>> for None.
MappingEntry(i, p, affiliate_links) ==
    [ordem          |-> i,
     nome           |-> p.name,
     categoria      |-> p.category,
     preco          |-> p.price,
     preco_original |-> p.original_price,
     url_original   |-> p.url,
     url_afiliado   |-> IF i <= Len(affiliate_links) THEN affiliate_links[i] ELSE <<>>,
     produto_id     |-> p.product_id,
     frete_gratis   |-> p.free_shipping,
     em_promocao    |-> p.is_promotion]

\* results['links'] after the loop: for each url that got a link, the link
\* of the last product with that url.
LinksDict(valid_products, affiliate_links) ==
    LET linked == {i \in 1..Len(valid_products) : i <= Len(affiliate_links)}
    IN  {<<valid_products[i].url, affiliate_links[i]>> :
            i \in {k \in linked :
                      \A j \in linked : valid_products[j].url = valid_products[k].url => j <= k}}

\* The mapping loop and the two counts.
MappedResults(valid_products, affiliate_links) ==
    LET success_count ==
            Cardinality({i \in 1..Len(valid_products) : i <= Len(affiliate_links)})
    IN  [success_count   |-> success_count,
         error_count     |-> Len(valid_products) - success_count,
         links           |-> LinksDict(valid_products, affiliate_links),
         product_mapping |-> [i \in 1..Len(valid_products) |->
                                 MappingEntry(i, valid_products[i], affiliate_links)]]

\* generate_affiliate_links_batch: navigate_to_affiliate_generator returns
\* False and the empty results are returned.
BatchNoGenerator ==
    /\ aff_products # <<>>
    /\ aff_results = <<>>
    /\ aff_urls = <<>>
    /\ aff_results' = <<EmptyResults>>
    /\ UNCHANGED <<aff_products, aff_urls, aff_retry_count, aff_attempts, aff_last,
                   aff_links, notAff>>

\* The generator page is reached: without a valid product the empty results
\* are returned, otherwise the urls are sent in a single request.
BatchSend ==
    /\ aff_products # <<>>
    /\ aff_results = <<>>
    /\ aff_urls = <<>>
    /\ \E valid_products \in {ValidProducts(aff_products[1])} :
          IF valid_products = <<>>
          THEN aff_results' = <<EmptyResults>> /\ UNCHANGED aff_urls
          ELSE /\ aff_urls' = <<[i \in 1..Len(valid_products) |-> valid_products[i].url]>>
               /\ UNCHANGED aff_results
    /\ UNCHANGED <<aff_products, aff_retry_count, aff_attempts, aff_last, aff_links, notAff>>

\* The request has returned: the products are mapped to the links by
\* position and the results are returned.
BatchMap ==
    /\ aff_products # <<>>
    /\ aff_results = <<>>
    /\ aff_links # <<>>
    /\ aff_results' = <<MappedResults(ValidProducts(aff_products[1]), aff_links[1])>>
    /\ UNCHANGED <<aff_products, aff_urls, aff_retry_count, aff_attempts, aff_last,
                   aff_links, notAff>>

-----------------------------------------------------------------------------
(* Specifications                                                          *)

IdlePrice == price_text = <<>> /\ price_result = <<>>
IdleProduct == product_data = <<>> /\ product = <<>> /\ product_error = FALSE
IdleKw == kw_name = <<>> /\ kw_description = <<>> /\ kw_result = <<>>
IdleCls ==
    /\ cls_name = <<>> /\ cls_url = <<>> /\ cls_description = <<>>
    /\ cls_result = <<>> /\ cls_keywords_called = FALSE
IdleExt ==
    /\ category_cache = {} /\ ext_element = <<>> /\ ext_page = <<>> /\ ext_run = <<>>
IdlePid == pid_url = <<>> /\ pid_result = <<>>
IdleCache == search_cache = {} /\ utc_now = 0 /\ tz_offset = 0 /\ cache_reply = <<>>
IdleStore == rt_products = <<>> /\ rt_saved = <<>> /\ rt_loaded = <<>>
IdlePage == pg_input = <<>> /\ pg_pos = 0 /\ pg_products = <<>> /\ pg_returned = <<>>
IdleCat == cat_call = <<>>
IdleSearch == srch_call = <<>> /\ srch_products = <<>> /\ srch_page_num = 1 /\ srch_fetches = 0 /\ srch_empty = FALSE /\ srch_result = <<>>
IdleAff == aff_products = <<>> /\ aff_results = <<>> /\ aff_urls = <<>> /\ aff_retry_count = 0 /\ aff_attempts = 0 /\ aff_last = <<>> /\ aff_links = <<>>

\* clean_price: the argument is drawn, the call applies the function.
PriceChars == {"0", "1", "9", ".", ","}

SamplePriceTexts ==
    { <<"R", "$", " ", "4", "8", "8", ",", "0", "0">>,
      <<"R", "$", " ", "1", ".", "2", "9", "9", ",", "9", "9">>,
      <<"1", ",", "2", "9", "9", ".", "9", "9">>,
      <<"1", ".", "2", "3", "4", ".", "5", "6", "7">>,
      <<"1", ".", "0", "4", "9">>,
      <<"1", "9", "9", ".", "9", "9">>,
      <<"a", "b", "c">>,
      <<"R", "$", " ", ".", "5", "0">>,
      <<" ", "9", "9", ".", "9", "0", " ">> }

PriceTexts == SeqsUpTo(PriceChars, MaxPriceLen) \cup SamplePriceTexts

InitPrice ==
    /\ price_text \in PriceTexts
    /\ price_result = <<>>
    /\ IdleProduct /\ IdleKw /\ IdleCls /\ IdleExt /\ IdlePid /\ IdleCache /\ IdleStore /\ IdlePage /\ IdleCat /\ IdleSearch /\ IdleAff

CleanPrice ==
    /\ price_result = <<>>
    /\ price_result' = <<clean_price(price_text)>>
    /\ UNCHANGED <<price_text, notPrice>>

NextPrice == CleanPrice

SpecPrice == InitPrice /\ [][NextPrice]_vars

\* Product: the keyword arguments are drawn, the constructor runs.
SampleNames ==
    { <<"F", "r", "i", "t", "a", "d", "e", "i", "r", "a", " ", "A", "i", "r", " ", "F", "r", "y", "e", "r">>,
      <<"T", "V">>,
      <<" ", " ", "S", "m", "a", "r", "t", " ", " ", " ", "T", "V", " ", "5", "0", "%", " ", "O", "F", "F", "!", " ", " ">>,
      <<" ", "a", " ", " ">>,
      <<"T", "V", "!">> }

\* Prices 0.5, 1, 9.99, 31, 32, 488, 899, 1000000 and 1000001: below, at and
\* above both limits; 31 of 32 is a discount that falls on a rounding tie.
SamplePrices ==
    { Num(5, 1), Num(1, 0), Num(999, 2), Num(31, 0), Num(32, 0),
      Num(488, 0), Num(899, 0), Num(1000000, 0), Num(1000001, 0) }

\* 0.0 is the field's default; 50.0 and 99.99 are values a caller supplies.
SuppliedDiscounts == { Num(0, 0), Num(50, 0), Num(9999, 2) }

SampleUrls ==
    { <<>>,
      <<"/", "p", "/", "M", "L", "B", "1", "2", "3">>,
      <<"h", "t", "t", "p", "s", ":", "/", "/", "x", ".", "b", "r", "/", "M", "L", "B", "-", "1">> }

ProductInputs ==
    [name                : SampleNames,
     price               : SamplePrices \cup {NoNum},
     original_price      : SamplePrices \cup {NoNum},
     discount_percentage : SuppliedDiscounts,
     url                 : SampleUrls,
     image_url           : {<<>>},
     is_promotion        : {FALSE},
     free_shipping       : {FALSE},
     product_id          : {<<>>},
     category            : {None},
     category_confidence : {Num(0, 0)}]

InitProduct ==
    /\ product_data \in {<<d>> : d \in ProductInputs}
    /\ product = <<>>
    /\ product_error = FALSE
    /\ IdlePrice /\ IdleKw /\ IdleCls /\ IdleExt /\ IdlePid /\ IdleCache /\ IdleStore /\ IdlePage /\ IdleCat /\ IdleSearch /\ IdleAff

NextProduct == Construct

SpecProduct == InitProduct /\ [][NextProduct]_vars

\* classify_by_keywords: name and description are drawn, the call applies.
\* A name is up to MaxNameWords words of NameWords joined by spaces.
NameWords ==
    { <<"T", "V", " ", "O", "L", "E", "D">>,
      <<"L", "C", "D", " ", "Q", "L", "E", "D">>,
      <<"S", "o", "m">>,
      <<"P", "o", "l", "o">>,
      <<"P", "C">>,
      <<"D", "V", "D">>,
      <<"M", "o", "l", "d", "e">>,
      <<"T", "o", "p">> }

RECURSIVE JoinWords(_)
JoinWords(ws) ==
    IF ws = <<>> THEN <<>>
    ELSE IF Len(ws) = 1 THEN ws[1]
    ELSE ws[1] \o <<" ">> \o JoinWords(Tail(ws))

Names == {JoinWords(ws) : ws \in SeqsUpTo(NameWords, MaxNameWords)}

Descriptions == { <<>>, <<"d", "v", "d">> }

InitKeywords ==
    /\ kw_name \in Names
    /\ kw_description \in Descriptions
    /\ kw_result = <<>>
    /\ IdlePrice /\ IdleProduct /\ IdleCls /\ IdleExt /\ IdlePid /\ IdleCache /\ IdleStore /\ IdlePage /\ IdleCat /\ IdleSearch /\ IdleAff

NextKeywords == ClassifyByKeywords

SpecKeywords == InitKeywords /\ [][NextKeywords]_vars

\* classify_product: name, url and description are drawn, the call applies.
\* A URL is up to MaxUrlParts parts of UrlParts, concatenated.
UrlParts ==
    { <<"/", "c", "/", "M", "L", "B", "1", "0", "0", "0">>,
      <<"/", "c", "/", "M", "L", "B", "1", "1", "4", "4">>,
      <<"/", "c", "/", "M", "L", "B", "9">>,
      <<"/", "M", "L", "B", "1", "0", "0", "0">>,
      <<"5">>,
      <<"/", "p", "/">> }

RECURSIVE Concat(_)
Concat(ps) == IF ps = <<>> THEN <<>> ELSE Head(ps) \o Concat(Tail(ps))

Urls == {Concat(ps) : ps \in SeqsUpTo(UrlParts, MaxUrlParts)}

ClassifyNames ==
    { <<>>,
      <<"T", "V", " ", "O", "L", "E", "D">>,
      <<"P", "o", "l", "o">>,
      <<"D", "V", "D">>,
      <<"M", "o", "l", "d", "e">> }

InitClassify ==
    /\ cls_name \in ClassifyNames
    /\ cls_url \in Urls
    /\ cls_description \in Descriptions
    /\ cls_result = <<>>
    /\ cls_keywords_called = FALSE
    /\ IdlePrice /\ IdleProduct /\ IdleKw /\ IdleExt /\ IdlePid /\ IdleCache /\ IdleStore /\ IdlePage /\ IdleCat /\ IdleSearch /\ IdleAff

NextClassify == ClassifyProduct

SpecClassify == InitClassify /\ [][NextClassify]_vars

\* classify_product on the product of the end-to-end scenario: the name
\* 'Fritadeira Air Fryer', any url, no description.
ScenarioName == <<"F", "r", "i", "t", "a", "d", "e", "i", "r", "a", " ", "A", "i", "r", " ", "F", "r", "y", "e", "r">>

InitScenario ==
    /\ cls_name = ScenarioName
    /\ cls_url \in Urls
    /\ cls_description = <<>>
    /\ cls_result = <<>>
    /\ cls_keywords_called = FALSE
    /\ IdlePrice /\ IdleProduct /\ IdleKw /\ IdleExt /\ IdlePid /\ IdleCache /\ IdleStore /\ IdlePage /\ IdleCat /\ IdleSearch /\ IdleAff

NextScenario == ClassifyProduct

SpecScenario == InitScenario /\ [][NextScenario]_vars

\* _extract_single_product: the fragment and the product's page are drawn on
\* an engine just constructed (empty category_cache), the call applies.
\* The name, link, image and text of a fragment come from Fragments; the
\* price and original-price selectors find at most MaxMatched elements in
\* all, with texts of PriceCandidates and OriginalCandidates.
Fragments ==
    { [names |-> << <<<<"T", "V", " ", "O", "L", "E", "D">>>>,
                    <<<<"C", "o", "n", "f", "i", "r", "a", " ", "o", "f", "e", "r", "t", "a", "s", " ", "T", "V">>>>,
                    <<>>,
                    <<<<"T", "V", " ", "O", "L", "E", "D", " ", "L", "C", "D", " ", "Q", "L", "E", "D">>>>,
                    <<>>, <<>> >>,
       links |-> << <<<<"/", "x", "/", "1">>>>,
                    <<<<"/", "p", "/", "M", "L", "B", "1", "2", "3">>>>,
                    <<>>, <<>> >>,
       image |-> <<"/", "i", ".", "p", "n", "g">>,
       text  |-> <<"5", "0", "%", " ", "O", "F", "F", " ", "F", "r", "e", "t", "e", " ", "g", "r", "a", "t", "u", "i", "t", "o">>],
      [names |-> << <<>>, <<>>, <<>>,
                    <<<<"T", "V", " ", "O", "L", "E", "D", " ", "L", "C", "D", " ", "Q", "L", "E", "D">>>>,
                    <<>>, <<>> >>,
       links |-> << <<>>, <<>>, <<>>, <<>> >>,
       image |-> <<>>,
       text  |-> <<>>],
      [names |-> << <<>>, <<>>, <<>>, <<>>, <<>>, <<<<"T", "V", " ", "O", "L", "E", "D">>>> >>,
       links |-> << <<>>, <<>>, <<>>, <<<<"/", "p", "/", "M", "L", "B", "1", "2", "3">>>> >>,
       image |-> <<>>,
       text  |-> <<>>],
      [names |-> << <<<<"M", "o", "l", "d", "e", " ", "T", "o", "p", " ", "P", "o", "l", "o">>>>,
                    <<>>, <<>>, <<>>, <<>>, <<>> >>,
       links |-> << <<>>, <<>>,
                    <<<<"h", "t", "t", "p", "s", ":", "/", "/", "x", ".", "b", "r", "/", "M", "L", "B", "-", "1">>>>,
                    <<>> >>,
       image |-> <<>>,
       text  |-> <<>>] }

PriceCandidates == { <<"a", "b", "c">>, <<"5">>, <<"4", "8", "8">> }
OriginalCandidates == { <<"5">>, <<"3", "0", "0">>, <<"4", "8", "8">>, <<"8", "9", "9">> }

\* The price selectors are slots 1..5, the original-price selectors the
\* slots after them.
Slots == 1..(PriceSelectors + OriginalSelectors)

\* The ways at most MaxMatched slots can be filled.
Matchings ==
    UNION {{m \in [S -> PriceCandidates \cup OriginalCandidates] :
               \A i \in S : m[i] \in IF i <= PriceSelectors THEN PriceCandidates
                                     ELSE OriginalCandidates}
           : S \in {T \in SUBSET Slots : Cardinality(T) <= MaxMatched}}

FoundBy(m, i) == IF i \in DOMAIN m THEN <<m[i]>> ELSE <<>>

Elements ==
    {[names     |-> f.names,
      prices    |-> [i \in 1..PriceSelectors |-> FoundBy(m, i)],
      originals |-> [i \in 1..OriginalSelectors |-> FoundBy(m, PriceSelectors + i)],
      links     |-> f.links,
      image     |-> f.image,
      text      |-> f.text] : f \in Fragments, m \in Matchings}

\* A page that does not load, and one with a breadcrumb.
Pages ==
    { [ok |-> FALSE, raises |-> FALSE, breadcrumbs |-> <<<<>>, <<>>, <<>>, <<>>>>, title |-> <<>>],
      [ok |-> TRUE, raises |-> FALSE,
       breadcrumbs |-> << <<>>, << <<"H", "o", "m", "e">>, <<"G", "a", "m", "e", "s">> >>, <<>>, <<>> >>,
       title |-> <<"T", "V", " ", "|", " ", "M", "e", "r", "c", "a", "d", "o", " ", "L", "i", "v", "r", "e">>] }

InitExtract ==
    /\ category_cache = {}
    /\ ext_element \in {<<e>> : e \in Elements}
    /\ ext_page \in {<<p>> : p \in Pages}
    /\ ext_run = <<>>
    /\ IdlePrice /\ IdleProduct /\ IdleKw /\ IdleCls /\ IdlePid /\ IdleCache /\ IdleStore /\ IdlePage /\ IdleCat /\ IdleSearch /\ IdleAff

NextExtract == ExtractSingleProduct

SpecExtract == InitExtract /\ [][NextExtract]_vars

\* _extract_single_product on elements that reach the classification: a
\* name, a price, an original price or none, a link, and a product page that
\* does not load, has a breadcrumb, has only a title, or raises.
ChooseNames ==
    { <<"T", "V", " ", "O", "L", "E", "D">>,
      <<"M", "o", "l", "d", "e", " ", "T", "o", "p", " ", "P", "o", "l", "o">>,
      <<"D", "V", "D", " ", "P", "E", "S", " ", "d", "e", " ", "M", "o", "t", "o">>,
      <<"T", "V", " ", "O", "L", "E", "D", " ", "L", "C", "D", " ", "Q", "L", "E", "D">> }

ChooseLinks ==
    { <<"/", "p", "/", "M", "L", "B", "1", "2", "3">>,
      <<"/", "c", "/", "M", "L", "B", "1", "1", "4", "4", "/", "p", "/", "M", "L", "B", "1", "2", "3">>,
      <<"/", "c", "/", "M", "L", "B", "1", "0", "0", "0">>,
      <<"/", "c", "/", "M", "L", "B", "9", "/", "p", "/", "M", "L", "B", "1", "2", "3">> }

ChooseElements ==
    {[names     |-> <<<<n>>, <<>>, <<>>, <<>>, <<>>, <<>>>>,
      prices    |-> <<<<<<"4", "8", "8">>>>, <<>>, <<>>, <<>>, <<>>>>,
      originals |-> <<o, <<>>, <<>>, <<>>, <<>>, <<>>>>,
      links     |-> <<<<l>>, <<>>, <<>>, <<>>>>,
      image     |-> <<>>,
      text      |-> <<>>] :
        n \in ChooseNames, l \in ChooseLinks, o \in {<<>>, <<<<"8", "9", "9">>>>}}

ChoosePages ==
    Pages \cup
    { [ok |-> TRUE, raises |-> FALSE, breadcrumbs |-> <<<<>>, <<>>, <<>>, <<>>>>,
       title |-> <<"T", "V", " ", "|", " ", "M", "e", "r", "c", "a", "d", "o", " ", "L", "i", "v", "r", "e", " ", "|", " ", "G", "a", "m", "e", "s">>],
      [ok |-> FALSE, raises |-> TRUE, breadcrumbs |-> <<<<>>, <<>>, <<>>, <<>>>>, title |-> <<>>] }

InitChoose ==
    /\ category_cache = {}
    /\ ext_element \in {<<e>> : e \in ChooseElements}
    /\ ext_page \in {<<p>> : p \in ChoosePages}
    /\ ext_run = <<>>
    /\ IdlePrice /\ IdleProduct /\ IdleKw /\ IdleCls /\ IdlePid /\ IdleCache /\ IdleStore /\ IdlePage /\ IdleCat /\ IdleSearch /\ IdleAff

NextChoose == ExtractSingleProduct

SpecChoose == InitChoose /\ [][NextChoose]_vars

\* extract_product_id: the url is drawn, the call applies.  A url is up to
\* MaxIdParts parts of IdParts, concatenated.
IdParts ==
    { <<"/", "p", "/", "M", "L", "B", "1", "2", "3">>,
      <<"M", "L", "A", "1">>,
      <<"i", "t", "e", "m", "_", "i", "d", "=", "4", "5">>,
      <<"i", "t", "e", "m", "-", "i", "d", ":", "6">>,
      <<"i", "t", "e", "m", "i", "d", "=", "7">>,
      <<"/", "1", "2", "3", "4", "5", "6", "7", "8", "9", "0">>,
      <<"/", "1", "2", "3">>,
      <<"?">> }

IdUrls == {Concat(ps) : ps \in SeqsUpTo(IdParts, MaxIdParts)}

InitProductId ==
    /\ pid_url \in IdUrls
    /\ pid_result = <<>>
    /\ IdlePrice /\ IdleProduct /\ IdleKw /\ IdleCls /\ IdleExt /\ IdleCache /\ IdleStore /\ IdlePage /\ IdleCat /\ IdleSearch /\ IdleAff

NextProductId == ExtractProductId

SpecProductId == InitProductId /\ [][NextProductId]_vars


\* ScraperCache: searches are stored and looked up while time passes.
QueryTypes == { <<"s", "e", "a", "r", "c", "h", "_", "t", "e", "r", "m">>, <<"c", "a", "t", "e", "g", "o", "r", "y">> }

JsonStr(s) == [kind |-> "str", s |-> s, n |-> 0]
JsonInt(n) == [kind |-> "int", s |-> <<>>, n |-> n]

\* {"term": "tv", "max": 10} as search_by_term builds it, the same items
\* inserted in the other order, and {"term": "tv", "max": 5}.
ParamDicts ==
    { << <<<<"t", "e", "r", "m">>, JsonStr(<<"t", "v">>)>>, <<<<"m", "a", "x">>, JsonInt(10)>> >>,
      << <<<<"m", "a", "x">>, JsonInt(10)>>, <<<<"t", "e", "r", "m">>, JsonStr(<<"t", "v">>)>> >>,
      << <<<<"t", "e", "r", "m">>, JsonStr(<<"t", "v">>)>>, <<<<"m", "a", "x">>, JsonInt(5)>> >> }

CachedProducts ==
    LET p(name, price, original_price) ==
            ProductFields([name                |-> name,
                           price               |-> price,
                           original_price      |-> original_price,
                           discount_percentage |-> Num(0, 0),
                           url                 |-> <<"/", "p", "/", "M", "L", "B", "1", "2", "3">>,
                           image_url           |-> <<>>,
                           is_promotion        |-> IsNum(original_price),
                           free_shipping       |-> FALSE,
                           product_id          |-> <<"M", "L", "B", "1", "2", "3">>,
                           category            |-> "Televisores",
                           category_confidence |-> Conf(90)])
    IN  << p(<<"S", "m", "a", "r", "t", " ", "T", "V", " ", "5", "0">>, Num(488, 0), Num(899, 0)),
           p(<<"S", "m", "a", "r", "t", " ", "T", "V", " ", "4", "K">>, Num(31, 0), NoNum) >>

ProductLists == { <<CachedProducts[1]>>, CachedProducts }

\* The searches made: one by term under both insertion orders, one by
\* category.
Requests ==
    { r \in QueryTypes \X ParamDicts :
        \/ r[1] = <<"s", "e", "a", "r", "c", "h", "_", "t", "e", "r", "m">>
               /\ \E k \in 1..Len(r[2]) : r[2][k][2].n = 10
        \/ r[1] = <<"c", "a", "t", "e", "g", "o", "r", "y">> /\ \E k \in 1..Len(r[2]) : r[2][k][2].n = 5 }

\* The machine's time zone: UTC-3 (America/Sao_Paulo) or UTC.
TzOffsets == { -3, 0 }

InitCache ==
    /\ search_cache = {}
    /\ utc_now = 0
    /\ tz_offset \in TzOffsets
    /\ cache_reply = <<>>
    /\ IdlePrice /\ IdleProduct /\ IdleKw /\ IdleCls /\ IdleExt /\ IdlePid /\ IdleStore /\ IdlePage /\ IdleCat /\ IdleSearch /\ IdleAff

NextCache ==
    \/ \E r \in Requests, products \in ProductLists :
           CacheSearchResults(r[1], r[2], products)
    \/ \E r \in Requests : GetCachedSearch(r[1], r[2])
    \/ CleanupOldCache
    \/ Tick

SpecCache == InitCache /\ [][NextCache]_vars


\* Persistence: Product objects are constructed, written and read back.
StoredNames ==
    { <<"S", "m", "a", "r", "t", " ", "T", "V", " ", "5", "0">>,
      <<" ", " ", "S", "m", "a", "r", "t", " ", " ", " ", "T", "V", " ", "5", "0", "%", " ", "O", "F", "F", "!", " ", " ">>,
      <<"T", "V", " ", "!", " ", "4", "K">>,
      <<"a", "!", "!">> }

StoredInputs ==
    [name                : StoredNames,
     price               : {NoNum, Num(31, 0), Num(488, 0)},
     original_price      : {NoNum, Num(899, 0)},
     discount_percentage : {Num(0, 0)},
     url                 : SampleUrls,
     image_url           : {<<>>, <<"h", "t", "t", "p", "s", ":", "/", "/", "x", ".", "b", "r", "/", "i", ".", "j", "p", "g">>},
     is_promotion        : {FALSE},
     free_shipping       : BOOLEAN,
     product_id          : {<<>>, <<"M", "L", "B", "1", "2", "3">>},
     category            : {None, "Televisores"},
     category_confidence : {Num(0, 0), Conf(90)}]

\* The Product objects: what the constructor makes of the inputs it accepts.
StoredProducts == {ProductFields(d) : d \in {i \in StoredInputs : ~ProductInvalid(i)}}

InitStore ==
    /\ rt_products \in {<<p>> : p \in StoredProducts}
    /\ rt_saved = <<>>
    /\ rt_loaded = <<>>
    /\ IdlePrice /\ IdleProduct /\ IdleKw /\ IdleCls /\ IdleExt /\ IdlePid /\ IdleCache /\ IdlePage /\ IdleCat /\ IdleSearch /\ IdleAff

NextStore ==
    \/ SaveProducts
    \/ SaveToCache
    \/ LoadProductsFromFile
    \/ LoadFromCache

SpecStore == InitStore /\ [][NextStore]_vars


\* Product: an object is constructed and its prices and discount are then
\* assigned.
MutationInputs ==
    {d \in ProductInputs :
        /\ d.name = <<"F", "r", "i", "t", "a", "d", "e", "i", "r", "a", " ", "A", "i", "r", " ", "F", "r", "y", "e", "r">>
        /\ d.url = <<>>}

AssignedPrices == { NoNum, Num(31, 0), Num(32, 0), Num(488, 0) }

InitMutate ==
    /\ product_data \in {<<d>> : d \in MutationInputs}
    /\ product = <<>>
    /\ product_error = FALSE
    /\ IdlePrice /\ IdleKw /\ IdleCls /\ IdleExt /\ IdlePid /\ IdleCache /\ IdleStore /\ IdlePage /\ IdleCat /\ IdleSearch /\ IdleAff

NextMutate ==
    \/ Construct
    \/ \E value \in AssignedPrices : Assign("price", value)
    \/ \E value \in AssignedPrices : Assign("original_price", value)
    \/ \E value \in SuppliedDiscounts : Assign("discount_percentage", value)

SpecMutate == InitMutate /\ [][NextMutate]_vars


\* extract_products_from_page: the listing is drawn on an engine just
\* constructed, the loop goes through its fragments.
ListedElement(name, price, link) ==
    [names     |-> << <<name>>, <<>>, <<>>, <<>>, <<>>, <<>> >>,
     prices    |-> << price, <<>>, <<>>, <<>>, <<>> >>,
     originals |-> << <<>>, <<>>, <<>>, <<>>, <<>>, <<>> >>,
     links     |-> << <<link>>, <<>>, <<>>, <<>> >>,
     image     |-> <<>>,
     text      |-> <<>>]

Unreachable == CHOOSE p \in Pages : ~p.ok
WithBreadcrumb == CHOOSE p \in Pages : p.ok

\* Fragments that give a product (488.00, one with a category page), one
\* whose price 2000000 fails Product's validation, one on which a step
\* throws, one without a price, and one whose link names a category.
ListedFragments ==
    { [element |-> ListedElement(<<"T", "V", " ", "O", "L", "E", "D", " ", "L", "C", "D", " ", "Q", "L", "E", "D">>, <<<<"4", "8", "8">>>>, <<"/", "p", "/", "M", "L", "B", "1", "2", "3">>),
       page |-> Unreachable, throws |-> FALSE],
      [element |-> ListedElement(<<"D", "V", "D", " ", "P", "E", "S", " ", "d", "e", " ", "M", "o", "t", "o">>, <<<<"4", "8", "8">>>>, <<"/", "p", "/", "M", "L", "B", "4", "5", "6">>),
       page |-> WithBreadcrumb, throws |-> FALSE],
      [element |-> ListedElement(<<"T", "V", " ", "O", "L", "E", "D", " ", "L", "C", "D", " ", "Q", "L", "E", "D">>, <<<<"2", "0", "0", "0", "0", "0", "0">>>>, <<"/", "p", "/", "M", "L", "B", "1", "2", "3">>),
       page |-> Unreachable, throws |-> FALSE],
      [element |-> ListedElement(<<"T", "V", " ", "O", "L", "E", "D", " ", "L", "C", "D", " ", "Q", "L", "E", "D">>, <<<<"4", "8", "8">>>>, <<"/", "p", "/", "M", "L", "B", "1", "2", "3">>),
       page |-> Unreachable, throws |-> TRUE],
      [element |-> ListedElement(<<"T", "V", " ", "O", "L", "E", "D", " ", "L", "C", "D", " ", "Q", "L", "E", "D">>, <<>>, <<"/", "p", "/", "M", "L", "B", "1", "2", "3">>),
       page |-> Unreachable, throws |-> FALSE],
      [element |-> ListedElement(<<"T", "V", " ", "O", "L", "E", "D", " ", "L", "C", "D", " ", "Q", "L", "E", "D">>, <<<<"4", "8", "8">>>>, <<"/", "c", "/", "M", "L", "B", "1", "1", "4", "4">>),
       page |-> Unreachable, throws |-> FALSE] }

\* The first product selector selects up to MaxFragments fragments, the
\* second none or two, the others none.
Selections ==
    { <<first, second, <<>>, <<>>, <<>>, <<>>>> :
        first \in SeqsUpTo(ListedFragments, MaxFragments),
        second \in {<<>>} \cup {<<f, f>> : f \in {g \in ListedFragments : g.page.ok}} }

InitPage ==
    /\ pg_input \in {<<[navigates |-> n, selections |-> s]>> :
                        n \in BOOLEAN, s \in Selections}
    /\ pg_pos = 0
    /\ pg_products = <<>>
    /\ pg_returned = <<>>
    /\ IdlePrice /\ IdleProduct /\ IdleKw /\ IdleCls /\ IdleExt /\ IdlePid /\ IdleCache /\ IdleStore /\ IdleCat /\ IdleSearch /\ IdleAff

NextPage ==
    \/ ExtractNoProducts
    \/ ExtractNextFragment

SpecPage == InitPage /\ [][NextPage]_vars


\* extract_category_from_product_page: calls follow one another on one
\* engine, for urls that share a key or not, while the product pages answer
\* differently from call to call.
VisitedUrls ==
    { <<>>,
      <<"/", "p", "/", "M", "L", "B", "1", "2", "3">>,
      <<"/", "p", "/", "M", "L", "B", "1", "2", "3", "?", "x", "=", "1">>,
      <<"/", "p", "/", "M", "L", "B", "4", "5", "6">> }

\* The pages of Pages, one on which a call raises, one with only a title
\* that names a category, and one with nothing to read.
VisitedPages ==
    Pages \cup
    { [ok |-> TRUE, raises |-> TRUE, breadcrumbs |-> <<<<>>, <<>>, <<>>, <<>>>>, title |-> <<>>],
      [ok |-> TRUE, raises |-> FALSE, breadcrumbs |-> <<<<>>, <<>>, <<>>, <<>>>>,
       title |-> <<"M", "e", "r", "c", "a", "d", "o", " ", "L", "i", "v", "r", "e", " ", "|", " ", "T", "e", "l", "e", "v", "i", "s", "o", "r", "e", "s">>],
      [ok |-> TRUE, raises |-> FALSE, breadcrumbs |-> <<<<>>, <<>>, <<>>, <<>>>>, title |-> <<>>] }

InitCategory ==
    /\ cat_call = <<>>
    /\ IdlePrice /\ IdleProduct /\ IdleKw /\ IdleCls /\ IdleExt /\ IdlePid /\ IdleCache /\ IdleStore /\ IdlePage /\ IdleSearch /\ IdleAff

NextCategory ==
    \E product_url \in VisitedUrls, page \in VisitedPages :
        ExtractCategory(product_url, page)

SpecCategory == InitCategory /\ [][NextCategory]_vars


\* From the listing to the stores and back: the products extracted from a
\* page are written to the file or the cache and read again.
InitPipeline == InitPage

NextPipeline ==
    \/ ExtractNoProducts
    \/ ExtractNextFragment
    \/ StoreFound
    \/ SaveProducts
    \/ SaveToCache
    \/ LoadProductsFromFile
    \/ LoadFromCache

SpecPipeline == InitPipeline /\ [][NextPipeline]_vars


\* The search functions: the call is drawn, the site answers each fetch with
\* one of the pages of PagePool.  max_products is 0..MaxProducts; the query
\* matters to search_products_with_progress only, the category id found by
\* _find_category_id to the category searches only.
SearchQueries ==
    { <<>>,
      <<"s", "m", "a", "r", "t", " ", "t", "v">>,
      <<"p", "o", "l", "o">>,
      <<"t", "v", " ", "p", "o", "l", "o", " ", "x">>,
      <<" ">> }

SearchCalls ==
    {[function |-> f, query |-> q, max_products |-> n, category_id |-> c] :
        f \in SearchFunctions, q \in SearchQueries, n \in 0..MaxProducts,
        c \in {None, "MLB1144"}}

\* One call for each way the arguments are used.
SearchInputs ==
    {call \in SearchCalls :
        /\ call.function # "search_products_with_progress" => call.query = <<"s", "m", "a", "r", "t", " ", "t", "v">>
        /\ call.function \notin {"search_category", "search_category_with_progress"}
               => call.category_id = None}

PagePool ==
    { <<>>, <<CachedProducts[1]>>, <<CachedProducts[2]>>, CachedProducts }

InitSearch ==
    /\ srch_call \in {<<call>> : call \in SearchInputs}
    /\ srch_products = <<>>
    /\ srch_page_num = 1
    /\ srch_fetches = 0
    /\ srch_empty = FALSE
    /\ srch_result = <<>>
    /\ IdlePrice /\ IdleProduct /\ IdleKw /\ IdleCls /\ IdleExt /\ IdlePid /\ IdleCache /\ IdleStore /\ IdlePage /\ IdleCat /\ IdleAff

NextSearch ==
    \/ SearchNoCategory
    \/ \E page_products \in PagePool : SearchPage(page_products)
    \/ SearchReturn

\* The event loop resumes a coroutine whose awaited call has completed.
SpecSearch == InitSearch /\ [][NextSearch]_vars /\ WF_vars(NextSearch)

\* The affiliate links: either generate_affiliate_links_batch is called with
\* up to MaxBatch products, some without url, or the single request is
\* called with a list of urls; each attempt on the page ends in one of
\* AttemptOutcomes.
AffiliateProducts ==
    LET p(name, url) ==
            ProductFields([name                |-> name,
                           price               |-> Num(488, 0),
                           original_price      |-> NoNum,
                           discount_percentage |-> Num(0, 0),
                           url                 |-> url,
                           image_url           |-> <<>>,
                           is_promotion        |-> FALSE,
                           free_shipping       |-> FALSE,
                           product_id          |-> <<>>,
                           category            |-> None,
                           category_confidence |-> Conf(0)])
    IN  { p(<<"S", "m", "a", "r", "t", " ", "T", "V", " ", "5", "0">>, <<"h", "t", "t", "p", "s", ":", "/", "/", "a", ".", "b", "r", "/", "p", "/", "M", "L", "B", "1">>),
          p(<<"S", "m", "a", "r", "t", " ", "T", "V", " ", "4", "K">>, <<>>),
          p(<<"P", "o", "l", "o", " ", "T", "o", "p">>, <<"h", "t", "t", "p", "s", ":", "/", "/", "a", ".", "b", "r", "/", "p", "/", "M", "L", "B", "2">>) }

GeneratedContents ==
    { <<>>,
      <<"h", "t", "t", "p", "s", ":", "/", "/", "m", ".", "b", "r", "/", "1">>,
      <<"e", "r", "r", "o">>,
      <<"h", "t", "t", "p", "s", ":", "/", "/", "m", ".", "b", "r", "/", "1", "\n", "\n", " ", "h", "t", "t", "p", "s", ":", "/", "/", "m", ".", "b", "r", "/", "2", " ", "\n", "e", "r", "r", "o", "\n">>,
      <<"\n", "h", "t", "t", "p", "s", ":", "/", "/", "m", ".", "b", "r", "/", "1", "\n", "h", "t", "t", "p", "s", ":", "/", "/", "m", ".", "b", "r", "/", "2", "\n", "h", "t", "t", "p", "s", ":", "/", "/", "m", ".", "b", "r", "/", "3", "\n", "h", "t", "t", "p", "s", ":", "/", "/", "m", ".", "b", "r", "/", "4">> }

AttemptOutcomes ==
    {[kind |-> k, content |-> <<>>] : k \in FailureKinds}
        \cup {[kind |-> "content", content |-> c] : c \in GeneratedContents}

InitAffiliate ==
    /\ \/ aff_products \in {<<ps>> : ps \in SeqsUpTo(AffiliateProducts, MaxBatch)}
          /\ aff_urls = <<>>
       \/ aff_products = <<>>
          /\ aff_urls \in {<<[i \in 1..Len(ps) |-> ps[i].url]>> :
                              ps \in SeqsUpTo({p \in AffiliateProducts : p.url # <<>>}, MaxBatch)}
    /\ aff_results = <<>>
    /\ aff_retry_count = 0
    /\ aff_attempts = 0
    /\ aff_last = <<>>
    /\ aff_links = <<>>
    /\ IdlePrice /\ IdleProduct /\ IdleKw /\ IdleCls /\ IdleExt /\ IdlePid /\ IdleCache /\ IdleStore /\ IdlePage /\ IdleCat /\ IdleSearch

NextAffiliate ==
    \/ \E outcome \in AttemptOutcomes : SingleRequest(outcome)
    \/ BatchNoGenerator
    \/ BatchSend
    \/ BatchMap

\* The event loop resumes a coroutine whose awaited call has completed.
SpecAffiliate == InitAffiliate /\ [][NextAffiliate]_vars /\ WF_vars(NextAffiliate)
-----------------------------------------------------------------------------
(* C2 - C4: _extract_single_product                                         *)

Element == ext_element[1]
Run == ext_run[1]
Extracted == ext_run # <<>>
Emitted == Extracted /\ Run.product # <<>>
Record == Run.product[1]

Ten == Num(10, 0)

\* The parsed value of what price selector i finds; NoNum when it finds
\* nothing or the text does not parse.
PriceAt(i) ==
    IF Element.prices[i] = <<>> THEN NoNum ELSE clean_price(Element.prices[i][1])

OriginalAt(i) ==
    IF Element.originals[i] = <<>> THEN NoNum ELSE clean_price(Element.originals[i][1])

Above(v, bound) == IsNum(v) /\ NumLt(bound, v)

\* Original-price candidate i passes the stated test against the current
\* price the call ended with.
OriginalPasses(i) ==
    /\ Above(OriginalAt(i), Ten)
    /\ (~Truthy(Run.price) \/ NumLt(Run.price, OriginalAt(i)))

\* C2: every returned record with both prices set has original_price > price;
\* and in every call that gets to the original-price selectors the original
\* price is the first candidate, in selector order, whose parsed value is
\* above 10 and, when there is a current price, strictly above it: candidates
\* failing this are passed over, and when none passes there is no original
\* price.
C2_OriginalAbovePrice ==
    /\ Emitted /\ IsNum(Record.price) /\ IsNum(Record.original_price)
           => NumLt(Record.price, Record.original_price)
    /\ Extracted /\ Run.name # <<>> =>
           LET passing == {i \in 1..OriginalSelectors : OriginalPasses(i)}
           IN  IF passing = {} THEN Run.original_price = NoNum
               ELSE Run.original_price = OriginalAt(Leftmost(passing))

\* A record whose original price comes from a later selector, an earlier one
\* having found a price above 10 that is not above the current price.
C2_Witness ==
    /\ Emitted /\ IsNum(Record.price) /\ IsNum(Record.original_price)
    /\ \E i, j \in 1..OriginalSelectors :
           /\ i < j
           /\ Above(OriginalAt(i), Ten) /\ ~NumLt(Record.price, OriginalAt(i))
           /\ Record.original_price = OriginalAt(j)

\* C3, as stated: the price of every returned record is the parsed value of
\* the first price candidate, in selector order, that is non-null and above
\* 10; no selector after that one is evaluated; and so no value that is
\* null or at most 10 is the price of a returned record.
C3_AsStated ==
    Emitted =>
        LET hits == {i \in 1..PriceSelectors : Above(PriceAt(i), Ten)}
        IN  /\ hits # {}
            /\ Record.price = PriceAt(Leftmost(hits))
            /\ \A i \in Run.evaluated : i <= Leftmost(hits)
            /\ Above(Record.price, Ten)

\* C4: a record is returned only when name, price and url are all present;
\* when the call ends with no name, no price or no url - in particular when no
\* price selector finds anything - it returns no record and the
\* classification step is never reached.
C4_Rejection ==
    /\ Emitted =>
           /\ Run.name # <<>> /\ Truthy(Run.price) /\ Run.url # <<>>
           /\ Record.name # <<>> /\ Record.price = Run.price /\ Record.url = Run.url
    /\ Extracted /\ (Run.name = <<>> \/ ~Truthy(Run.price) \/ Run.url = <<>>)
           => Run.product = <<>> /\ ~Run.classified
    /\ Extracted /\ (\A i \in 1..PriceSelectors : ~Truthy(PriceAt(i)))
           => Run.product = <<>> /\ ~Run.classified

\* A fragment with a name and a url whose price selectors give no price:
\* rejected, unclassified.
C4_Witness ==
    /\ Extracted
    /\ Run.name # <<>> /\ Run.url # <<>> /\ ~Truthy(Run.price)
    /\ \E i \in 1..PriceSelectors : Element.prices[i] # <<>>
    /\ Run.product = <<>> /\ ~Run.classified

-----------------------------------------------------------------------------
(* C5 - C9: the classifier                                                 *)

\* "/c/" followed by id and then by no further digit, at position i of url.
CategoryTokenAt(url, i, id) ==
    /\ i + 2 + Len(id) <= Len(url)
    /\ SubSeq(url, i, i + 2 + Len(id)) = <<"/", "c", "/">> \o id
    /\ (i + 3 + Len(id) <= Len(url) => url[i + 3 + Len(id)] \notin Digits)

\* The categories whose identifier token occurs somewhere in url.
CategoriesNamedIn(url) ==
    {p[2] : p \in {q \in ML_CATEGORY_IDS :
                      \E i \in 1..Len(url) : CategoryTokenAt(url, i, q[1])}}

\* Position i of url starts "/c/MLB" and a digit: a category token, known or not.
AnyCategoryTokenAt(url, i) ==
    /\ i + 6 <= Len(url)
    /\ SubSeq(url, i, i + 5) = <<"/", "c", "/", "M", "L", "B">>
    /\ url[i + 6] \in Digits

\* The categories named by the first category token of url (none when that
\* token is not in the table or there is no token).
CategoryOfFirstToken(url) ==
    {p[2] : p \in {q \in ML_CATEGORY_IDS :
                      \E i \in 1..Len(url) :
                          /\ CategoryTokenAt(url, i, q[1])
                          /\ \A j \in 1..(i - 1) : ~AnyCategoryTokenAt(url, j)}}

\* C5 as stated: whenever the URL contains a known category-identifier token,
\* classify_product returns that token's category with confidence 1.0,
\* whatever the name.
C5_AsStated ==
    (cls_result # <<>> /\ CategoriesNamedIn(cls_url) # {}) =>
        /\ cls_result[1].category \in CategoriesNamedIn(cls_url)
        /\ cls_result[1].confidence = Conf(100)

\* C5 amended: whenever the first "/c/MLB<digits>" token of the URL is an id
\* of the id-to-category table, classify_product returns that id's category
\* with confidence 1.0, whatever keywords the name and description contain.
C5_FirstToken ==
    (cls_result # <<>> /\ CategoryOfFirstToken(cls_url) # {}) =>
        /\ cls_result[1].category \in CategoryOfFirstToken(cls_url)
        /\ cls_result[1].confidence = Conf(100)

\* The name "DVD" has a Games keyword, the URL names category MLB1000, and
\* the result is that category with confidence 1.0.
C5_Witness ==
    /\ cls_result # <<>>
    /\ cls_name = <<"D", "V", "D">>
    /\ cls_url = <<"/", "c", "/", "M", "L", "B", "1", "0", "0", "0">> \o <<"/", "p", "/">>
    /\ classify_by_keywords(cls_name, cls_description).category = "Games"
    /\ cls_result[1] = [category |-> "Eletronicos, Audio e Video", confidence |-> Conf(100)]

\* The larger of two confidences.
MaxConf(a, b) == IF NumLt(a, b) THEN b ELSE a

\* C6: classify_product follows the reconciliation order: a by-URL confidence
\* > 0.8 returns the by-URL result without consulting the keywords; otherwise
\* the keywords are consulted and, when both methods produced a category, an
\* agreement returns it with the larger confidence and a disagreement returns
\* the result of higher confidence; when only one produced a category, that
\* one is returned.
C6_Reconciliation ==
    cls_result # <<>> =>
        LET u == classify_by_url(cls_url)
            k == classify_by_keywords(cls_name, cls_description)
            r == cls_result[1]
        IN  IF NumLt(Conf(80), u.confidence)
            THEN r = u /\ ~cls_keywords_called
            ELSE /\ cls_keywords_called
                 /\ (u.category # None /\ k.category # None /\ u.category = k.category)
                        => r = [category |-> u.category,
                                confidence |-> MaxConf(u.confidence, k.confidence)]
                 /\ (u.category # None /\ k.category # None /\ u.category # k.category)
                        => /\ r \in {u, k}
                           /\ r.confidence = MaxConf(u.confidence, k.confidence)
                 /\ (u.category # None /\ k.category = None) => r = u
                 /\ (u.category = None /\ k.category # None) => r = k

\* Only the keywords produced a category (the URL's first token is unknown),
\* they were consulted, and their result is returned.
C6_Witness ==
    /\ cls_result # <<>>
    /\ cls_keywords_called
    /\ cls_url = <<"/", "c", "/", "M", "L", "B", "9">>
    /\ cls_name = <<"P", "o", "l", "o">>
    /\ cls_result[1] = [category |-> "Roupas e Calcados", confidence |-> Conf(25)]

\* The keywords of the category named c.
KeywordsOf(c) ==
    UNION {CATEGORY_KEYWORDS[i].keywords :
              i \in {j \in 1..Len(CATEGORY_KEYWORDS) : CATEGORY_KEYWORDS[j].category = c}}

\* The keywords of category c that occur in the lowercased name + ' ' +
\* description.
Occurring(c, name, description) ==
    {k \in KeywordsOf(c) : Contains(Lower(name \o <<" ">> \o description), k)}

\* C7: when classify_by_keywords returns a category, its confidence is
\* min(0.1 + matches * 0.15, 0.95), matches being the number of that category's
\* keywords occurring in the lowercased name + description; the confidence
\* does not decrease as matches grows and is always below 1.0.
C7_Confidence ==
    (kw_result # <<>> /\ kw_result[1].category # None) =>
        LET matches == Cardinality(Occurring(kw_result[1].category, kw_name, kw_description))
        IN  /\ matches >= 1
            /\ kw_result[1].confidence =
                  (IF 10 + 15 * matches <= 95 THEN Conf(10 + 15 * matches) ELSE Conf(95))
            /\ NumLt(kw_result[1].confidence, Conf(100))
            /\ \A n \in 1..matches :
                  ~NumLt(KeywordConfidence(n), KeywordConfidence(n - 1))

\* "TV OLED LCD QLED Som" has six keywords of one category, and the
\* confidence is capped at 0.95.
C7_Witness ==
    /\ kw_result # <<>>
    /\ kw_result[1].category = "Eletronicos, Audio e Video"
    /\ Cardinality(Occurring(kw_result[1].category, kw_name, kw_description)) = 6
    /\ kw_result[1].confidence = Conf(95)

\* (score, match count) of category c, score being weight 1.0 per match.
ScoreOf(c, name, description) ==
    <<KeywordWeight * Cardinality(Occurring(c, name, description)),
      Cardinality(Occurring(c, name, description))>>

MatchedCategories(name, description) ==
    {c \in Categories : Occurring(c, name, description) # {}}

\* The returned category has a match and no matched category has a higher
\* (score, match count), score compared first; no category is returned only
\* when nothing matched.
ReturnsMaximal(name, description, result) ==
    IF MatchedCategories(name, description) = {}
    THEN result.category = None
    ELSE /\ result.category \in MatchedCategories(name, description)
         /\ \A c \in MatchedCategories(name, description) :
               LET a == ScoreOf(c, name, description)
                   b == ScoreOf(result.category, name, description)
               IN  a[1] < b[1] \/ (a[1] = b[1] /\ a[2] <= b[2])

\* C8 as stated: classify_by_keywords returns a category whose (score,
\* match count) is maximal among the categories with at least one keyword in
\* the lowercased name + description, and returns no category only when no
\* keyword occurs in that text.
C8_AsStated ==
    kw_result # <<>> => ReturnsMaximal(kw_name, kw_description, kw_result[1])

\* C8 amended: the same for every non-empty name; for an empty name
\* classify_by_keywords returns no category, whatever the description holds.
C8_Maximal ==
    kw_result # <<>> =>
        IF kw_name = <<>>
        THEN kw_result[1] = NoCategory
        ELSE ReturnsMaximal(kw_name, kw_description, kw_result[1])

\* "PC Polo Top": Informatica, earlier in the table, has one match, Roupas e
\* Calcados has two ("polo", "top") and is returned.
C8_Witness ==
    /\ kw_result # <<>>
    /\ kw_name = <<"P", "C", " ", "P", "o", "l", "o", " ", "T", "o", "p">>
    /\ kw_description = <<>>
    /\ ScoreOf("Informatica", kw_name, kw_description) = <<1, 1>>
    /\ ScoreOf("Roupas e Calcados", kw_name, kw_description) = <<2, 2>>
    /\ kw_result[1].category = "Roupas e Calcados"

\* C9: when neither the by-URL method nor the keyword method produces a
\* category, classify_product returns (None, 0.0): the call returns normally
\* with that value.
C9_Neither ==
    (/\ cls_result # <<>>
     /\ classify_by_url(cls_url).category = None
     /\ classify_by_keywords(cls_name, cls_description).category = None) =>
        /\ cls_result[1].category = None
        /\ NumEq(cls_result[1].confidence, Num(0, 0))

\* The name "Molde" has no keyword, the URL's token MLB9 is unknown, and the
\* call returned (None, 0.0).
C9_Witness ==
    /\ cls_result # <<>>
    /\ cls_name = <<"M", "o", "l", "d", "e">>
    /\ cls_description = <<>>
    /\ cls_url = <<"/", "c", "/", "M", "L", "B", "9">> \o <<"/", "p", "/">>
    /\ cls_result[1] = NoCategory

-----------------------------------------------------------------------------
(* C10: a cleaned text with '.' and no ','                                  *)

\* What survives cleaning: digits, commas and periods.
Cleaned(text) == Filter(text, Digits \cup {",", "."})

DotOnly(t) == Count(t, ".") > 0 /\ Count(t, ",") = 0

IntPart(t) == BeforeFirst(t, ".")
FracPart(t) == AfterLast(t, ".")

\* t read with its single '.' as the decimal point.
AsDecimal(t) ==
    Num(DigitsValue(IntPart(t)) * Pow10(Len(FracPart(t))) + DigitsValue(FracPart(t)),
        Len(FracPart(t)))

\* t read with every '.' removed: the remaining digits, None when none remain.
AsThousands(t) ==
    IF Remove(t, ".") = <<>> THEN NoNum ELSE Num(DigitsValue(Remove(t, ".")), 0)

\* The claim's condition: exactly one '.', at most 2 fractional digits, and
\* an integer part that parses to a number below 100.
DecimalPointCase(t) ==
    /\ Count(t, ".") = 1
    /\ Len(FracPart(t)) <= 2
    /\ IntPart(t) # <<>>
    /\ DigitsValue(IntPart(t)) < 100

\* The case the claim leaves out: one '.', at most 2 fractional digits, and
\* nothing before the '.'.
EmptyIntegerCase(t) ==
    Count(t, ".") = 1 /\ Len(FracPart(t)) <= 2 /\ IntPart(t) = <<>>

\* C10 as stated: for a cleaned text with '.' and no ',', clean_price reads
\* the '.' as a decimal point exactly when there is one '.', the fraction has
\* at most 2 digits and the integer part is a number < 100; in every other
\* case it removes every '.' and parses the remaining digits.
C10_AsStated ==
    (price_result # <<>> /\ DotOnly(Cleaned(price_text))) =>
        price_result[1] = IF DecimalPointCase(Cleaned(price_text))
                          THEN AsDecimal(Cleaned(price_text))
                          ELSE AsThousands(Cleaned(price_text))

\* C10 amended: as C10, except that with exactly one '.', at most 2
\* fractional digits and an empty integer part (".5", ".50", ".") the
\* result is None, not the remaining digits.
C10_DotOnly ==
    (price_result # <<>> /\ DotOnly(Cleaned(price_text))) =>
        price_result[1] = IF DecimalPointCase(Cleaned(price_text))
                          THEN AsDecimal(Cleaned(price_text))
                          ELSE IF EmptyIntegerCase(Cleaned(price_text))
                          THEN NoNum
                          ELSE AsThousands(Cleaned(price_text))

\* '199.99' has been parsed, and gave 19999.
C10_Witness ==
    /\ price_text = <<"1", "9", "9", ".", "9", "9">>
    /\ price_result = <<Num(19999, 0)>>

-----------------------------------------------------------------------------
(* C1: the discount of a constructed Product                               *)

\* a / b <= c / d for a, c >= 0 and b, d > 0, by comparing the integer parts
\* and then the inverted remainders (no product is formed).
RECURSIVE FracLe(_, _, _, _)
FracLe(a, b, c, d) ==
    IF a \div b # c \div d THEN a \div b < c \div d
    ELSE IF a % b = 0 THEN TRUE
    ELSE IF c % d = 0 THEN FALSE
    ELSE FracLe(d, c % d, b, a % b)

\* k hundredths of a percent is (original - current) / original * 100 rounded
\* to 2 places: the exact percentage lies within half a hundredth of k.
IsRoundedPercentage(k, original, current) ==
    LET o == Scaled(original, current)
        x == Scaled(original, current) - Scaled(current, original)
    IN  /\ k >= 1 => FracLe(2 * k - 1, 20000, x, o)
        /\ FracLe(x, o, 2 * k + 1, 20000)

\* C1: every constructed Product has discount_percentage =
\* round((original_price - price) / original_price * 100, 2) when both prices
\* are present and original_price > price, and 0.0 otherwise, whatever
\* discount_percentage the caller supplied.
C1_Discount ==
    product # <<>> =>
        LET p == product[1]
        IN  IF IsNum(p.price) /\ IsNum(p.original_price)
               /\ NumLt(p.price, p.original_price)
            THEN /\ p.discount_percentage.e = 2
                 /\ p.discount_percentage.m >= 0
                 /\ IsRoundedPercentage(p.discount_percentage.m,
                                        p.original_price, p.price)
            ELSE p.discount_percentage = Num(0, 0)

\* A Product built from price 488, original 899 and a supplied discount of
\* 50.0 carries 45.72; one built without original price and a supplied 50.0
\* is covered by the same run.
C1_Witness ==
    /\ product # <<>>
    /\ product_data[1].discount_percentage = Num(50, 0)
    /\ product[1].price = Num(488, 0)
    /\ product[1].original_price = Num(899, 0)
    /\ product[1].discount_percentage = Num(4572, 2)

-----------------------------------------------------------------------------
(* C11, C12: clean_price with both separators; clean_price is total         *)

BothSeparators(t) == Count(t, ",") > 0 /\ Count(t, ".") > 0

\* The separator of t whose last occurrence is the later one.
LaterSeparator(t) == IF RFind(t, ",") > RFind(t, ".") THEN "," ELSE "."

HasDigit(t) == \E i \in 1..Len(t) : t[i] \in Digits

\* t read with its later separator as the decimal point and the other
\* separator dropped: the digits before the point and those after it.
WithLaterAsDecimal(t) ==
    LET point == RFind(t, LaterSeparator(t))
        before == Filter(SubSeq(t, 1, point - 1), Digits)
        after == SubSeq(t, point + 1, Len(t))
    IN  Num(DigitsValue(before \o after), Len(after))

\* C11: for a cleaned text with both ',' and '.', clean_price reads the
\* separator whose last occurrence is later as the decimal point and drops
\* every occurrence of the other one; the result is that number when the
\* decimal separator occurs once and a digit is left, and None otherwise.
C11_BothSeparators ==
    (price_result # <<>> /\ BothSeparators(Cleaned(price_text))) =>
        price_result[1] =
            IF /\ Count(Cleaned(price_text), LaterSeparator(Cleaned(price_text))) = 1
               /\ HasDigit(Cleaned(price_text))
            THEN WithLaterAsDecimal(Cleaned(price_text))
            ELSE NoNum

\* '1,299.99' has been parsed and gave 1299.99.
C11_Witness ==
    /\ price_text = <<"1", ",", "2", "9", "9", ".", "9", "9">>
    /\ price_result = <<Num(129999, 2)>>

\* The cleaned text t can be converted: what is handed to float() has a
\* digit and at most one '.', and int() is not asked for an empty string.
Convertible(t) ==
    IF BothSeparators(t) THEN Count(t, LaterSeparator(t)) = 1 /\ HasDigit(t)
    ELSE IF Count(t, ",") > 0 THEN Count(t, ",") = 1 /\ HasDigit(t)
    ELSE IF Count(t, ".") = 1 /\ Len(FracPart(t)) <= 2 THEN IntPart(t) # <<>>
    ELSE HasDigit(t)

\* C12: every call of clean_price returns, and returns a number (not
\* negative) or None; it returns None exactly when nothing survives cleaning
\* or the cleaned text cannot be converted.
C12_Total ==
    price_result # <<>> =>
        /\ price_result[1] = NoNum \/ (IsNum(price_result[1]) /\ price_result[1].m >= 0)
        /\ price_result[1] = NoNum <=>
               (Cleaned(price_text) = <<>> \/ ~Convertible(Cleaned(price_text)))

\* A text with several commas has been parsed and gave None.
C12_Witness ==
    /\ price_text = <<"1", ",", "1", ",", "1">>
    /\ price_result = <<NoNum>>

-----------------------------------------------------------------------------
(* C13: extract_product_id                                                  *)

\* What the claim says the call returns: the match of the first pattern, in
\* the fixed order, that matches; for the parameter pattern only its digits.
StatedProductId(url) ==
    IF MLIdMatches(url) # {}
    THEN SubSeq(url, Leftmost(MLIdMatches(url)), Leftmost(MLIdMatches(url)) + 2)
             \o DigitRun(url, Leftmost(MLIdMatches(url)) + 3)
    ELSE IF ItemIdMatches(url) # {}
    THEN DigitRun(url, ItemIdAt(url, Leftmost(ItemIdMatches(url))) + 3)
    ELSE IF LongIdMatches(url) # {}
    THEN DigitRun(url, Leftmost(LongIdMatches(url)) + 1)
    ELSE <<>>

\* C13, as stated: extract_product_id returns the match of the first of its
\* patterns that matches, in the fixed order - the item id, the numeric group
\* alone for an item_id= / item-id: parameter, the run of at least 10 digits
\* of a path segment - and None when no pattern matches.
C13_AsStated ==
    pid_result # <<>> =>
        ~pid_result[1].raised /\ pid_result[1].id = StatedProductId(pid_url)

-----------------------------------------------------------------------------
(* C14: the cache key does not depend on the insertion order of params      *)

\* The items of a dict, whatever their order.
Items(params) == {params[k] : k \in 1..Len(params)}

\* The row was written by cache_search_results(query_type, p, ...) for a
\* dict p holding the items of params in some order.
StoredUnder(row, query_type, params) ==
    /\ row.query_type = query_type
    /\ \E p \in ParamDicts : Items(p) = Items(params) /\ row.query_params = JsonDumps(p, FALSE)

\* A get_cached_search call has just answered.
Answered == cache_reply' # cache_reply

\* C14: two dicts holding the same key/value pairs give the same key for the
\* same query_type whatever their insertion order, and a lookup is answered
\* with the products of the unexpired row stored for its query_type and its
\* pairs, whichever order the row was stored under.
C14_OrderIndependent ==
    [][/\ \A query_type \in QueryTypes, p1 \in ParamDicts, p2 \in ParamDicts :
              Items(p1) = Items(p2)
                  => _generate_cache_key(query_type, p1) = _generate_cache_key(query_type, p2)
       /\ Answered =>
              \A row \in search_cache :
                  StoredUnder(row, cache_reply'[1].query_type, cache_reply'[1].params)
                      /\ Unexpired(row)
                  => cache_reply'[1].result = <<LoadProducts(row.products_json)>>]_vars

\* A lookup was answered with a list while the row of its key had been
\* stored under the other insertion order.
C14_Witness ==
    /\ cache_reply # <<>>
    /\ cache_reply[1].result # <<>>
    /\ \E row \in search_cache :
           /\ StoredUnder(row, cache_reply[1].query_type, cache_reply[1].params)
           /\ row.query_params # JsonDumps(cache_reply[1].params, FALSE)
           /\ Unexpired(row)
           /\ cache_reply[1].result = <<LoadProducts(row.products_json)>>

-----------------------------------------------------------------------------
(* C15: writing a Product and reading it back                               *)

\* C15 as stated: whenever a Product has been written, by save_products or
\* as a cache row, and read back, by load_products_from_file or
\* get_cached_search, the reading succeeds and gives a Product with the same
\* name, price, original_price, discount_percentage, url, product_id,
\* image_url, free_shipping, is_promotion, category and category_confidence.
C15_AsStated ==
    rt_loaded # <<>> => rt_loaded[1].products = <<rt_products>>

-----------------------------------------------------------------------------
(* C16: the discount after assignments                                      *)

\* The discount derived from the prices a Product holds.
DerivedDiscount(p) == validate_discount(Num(0, 0), p.original_price, p.price)

\* C16 as stated: after a construction followed by any assignments to price,
\* original_price or discount_percentage, discount_percentage equals the
\* value derived from the current price and original_price.
C16_AsStated ==
    product # <<>> =>
        NumEq(product[1].discount_percentage, DerivedDiscount(product[1]))

-----------------------------------------------------------------------------
(* C17: the length of a constructed Product's name                          *)

\* C17 as stated: the name of every constructed Product has at least 3
\* characters after normalization, and the constructor fails on every input
\* whose normalized name is shorter.
C17_AsStated ==
    /\ product # <<>> => Len(product[1].name) >= MinNameLen
    /\ (product_data # <<>> /\ (product # <<>> \/ product_error)
            /\ Len(validate_name(product_data[1].name)) < MinNameLen)
           => product_error

-----------------------------------------------------------------------------
(* C18: prices outside [1.00, 1,000,000.00]                                 *)

\* 1.00 <= v <= 1,000,000.00
WithinPriceRange(v) == ~NumLt(v, Num(1, 0)) /\ ~NumLt(Num(1000000, 0), v)

\* The constructor has run on product_data.
Constructed == product_data # <<>> /\ (product # <<>> \/ product_error)

\* C18: constructing a Product with a price or original_price below 1.00 or
\* above 1,000,000.00 fails with a validation error; a Product that is
\* constructed holds the prices it was given, unchanged, each present one
\* within the range.
C18_PriceRange ==
    Constructed =>
        /\ \A f \in {"price", "original_price"} :
               (IsNum(product_data[1][f]) /\ ~WithinPriceRange(product_data[1][f]))
                   => (product_error /\ product = <<>>)
        /\ product # <<>> =>
               \A f \in {"price", "original_price"} :
                   /\ product[1][f] = product_data[1][f]
                   /\ IsNum(product[1][f]) => WithinPriceRange(product[1][f])

\* The constructor failed on an acceptable name because of a price above the
\* range and an original price below it.
C18_Witness ==
    /\ Constructed
    /\ product_error
    /\ ~NameInvalid(product_data[1].name)
    /\ product_data[1].price = Num(1000001, 0)
    /\ product_data[1].original_price = Num(5, 1)

-----------------------------------------------------------------------------
(* C19: a fragment that fails yields nothing and the loop goes on            *)

\* The elements the page function goes through.
Listed == PageElements(pg_input[1].selections)

\* What the extraction finds in a fragment, on an engine with an empty cache.
Found(fragment) == ExtractRun(fragment.element, fragment.page, {})

\* The fragment gives a record: no step throws, name, price and link are
\* found and the prices pass Product's validation.
Yields(fragment) ==
    /\ ~fragment.throws
    /\ Found(fragment).name # <<>>
    /\ Truthy(Found(fragment).price)
    /\ Found(fragment).url # <<>>
    /\ WithinPriceRange(Found(fragment).price)
    /\ IsNum(Found(fragment).original_price)
           => WithinPriceRange(Found(fragment).original_price)

\* The fragments among the first n that give a record.
Yielding(n) == {i \in 1..n : Yields(Listed[i])}

\* C19: _extract_single_product never raises; a fragment on which a step
\* throws or whose Product fails validation gives None, and
\* extract_products_from_page goes on with the remaining fragments: the
\* list holds one record, with a price within Product's range and a url, for
\* each fragment gone through that gives one, nothing for the others, and
\* the function returns only after the last fragment, with that list.
C19_Isolation ==
    (pg_input # <<>> /\ pg_input[1].navigates) =>
        /\ Len(pg_products) = Cardinality(Yielding(pg_pos))
        /\ \A k \in 1..Len(pg_products) :
               /\ IsNum(pg_products[k].price)
               /\ WithinPriceRange(pg_products[k].price)
               /\ pg_products[k].url # <<>>
        /\ pg_returned # <<>> =>
               /\ pg_pos = Len(Listed)
               /\ pg_returned[1] = pg_products

\* The function has returned one record from three fragments: a step threw
\* on the first, the second failed Product's validation, the third gave
\* the record.
C19_Witness ==
    /\ pg_input # <<>> /\ pg_input[1].navigates
    /\ pg_returned # <<>>
    /\ Len(Listed) = 3
    /\ Listed[1].throws
    /\ ~Listed[2].throws
    /\ Truthy(Found(Listed[2]).price) /\ ~WithinPriceRange(Found(Listed[2]).price)
    /\ Yields(Listed[3])
    /\ Len(pg_returned[1]) = 1

-----------------------------------------------------------------------------
(* C20: the entries of the category cache                                   *)

\* A call has just answered.
CategoryAnswered == cat_call' # <<>> /\ cat_call' # cat_call

\* C20: category_cache holds at most one entry per url key; an entry, once
\* stored, is never changed or removed; and a call for a url whose key has
\* an entry returns the pair of that entry.
C20_Idempotent ==
    [][/\ \A e1 \in category_cache', e2 \in category_cache' :
              e1.url_key = e2.url_key => e1 = e2
       /\ category_cache \subseteq category_cache'
       /\ CategoryAnswered =>
              \A e \in category_cache :
                  e.url_key = UrlKey(cat_call'[1].product_url)
                  => /\ cat_call'[1].result.category = e.category
                     /\ cat_call'[1].result.confidence = e.confidence]_vars

\* A call for a url whose key has the entry (Games, 0.9) has answered with
\* that pair although the page it would have met gives another answer: the
\* url differs from the key by its parameters and the page raises.
C20_Witness ==
    /\ cat_call # <<>>
    /\ cat_call[1].product_url # UrlKey(cat_call[1].product_url)
    /\ cat_call[1].page.raises
    /\ cat_call[1].result = [category |-> "Games", confidence |-> BreadcrumbConfidence]
    /\ \E e \in category_cache :
           /\ e.url_key = UrlKey(cat_call[1].product_url)
           /\ e.category = "Games"
    /\ Cardinality(category_cache) = 2

-----------------------------------------------------------------------------
(* C21: category_confidence lies within [0.0, 1.0]                          *)

\* 0.0 <= v <= 1.0
IsConfidence(v) == ~NumLt(v, Num(0, 0)) /\ ~NumLt(Num(1, 0), v)

\* The Product objects there are: those extracted from the page, those
\* handed to the stores, and those read back from the file or the cache.
ProductsAlive ==
    {pg_products[k] : k \in 1..Len(pg_products)}
        \cup {rt_products[k] : k \in 1..Len(rt_products)}
        \cup (IF rt_loaded # <<>> /\ rt_loaded[1].products # <<>>
              THEN {rt_loaded[1].products[1][k] : k \in 1..Len(rt_loaded[1].products[1])}
              ELSE {})

\* C21: every Product, whether produced by extraction, reloaded from the
\* cache or loaded from a persisted JSON file, has a category_confidence
\* between 0.0 and 1.0.
C21_ConfidenceRange ==
    \A p \in ProductsAlive : IsConfidence(p.category_confidence)

\* Two products were extracted, one classified by its page's breadcrumb
\* (0.9) and one by the category id of its link (1.0), written to the file
\* and read back.
C21_Witness ==
    /\ rt_saved # <<>> /\ rt_saved[1].to = "file"
    /\ rt_loaded # <<>> /\ rt_loaded[1].products # <<>>
    /\ Len(rt_loaded[1].products[1]) = 2
    /\ rt_loaded[1].products[1][1].category_confidence = BreadcrumbConfidence
    /\ rt_loaded[1].products[1][2].category_confidence = Conf(100)

-----------------------------------------------------------------------------
(* C22: the category of 'Fritadeira Air Fryer'                              *)

\* C22 as stated: for the name 'Fritadeira Air Fryer' and a url without a
\* category token, classify_product reaches the keyword method and returns
\* a category.
C22_AsStated ==
    (cls_name = ScenarioName /\ cls_result # <<>> /\ CategoryMatches(cls_url) = {})
        => (cls_keywords_called /\ cls_result[1].category # None)

-----------------------------------------------------------------------------
(* C23: a cached search lives for ttl_hours                                 *)

\* The row get_cached_search looks for: the one stored under the key of the
\* lookup that has just answered.
RowOfLookup(row) ==
    row.cache_key = _generate_cache_key(cache_reply'[1].query_type, cache_reply'[1].params)

\* Hours between the store of the row (its created_at, CURRENT_TIMESTAMP of
\* the insert) and now.
Age(row) == SqlNow - row.created_at

\* C23 as stated: a lookup made less than ttl_hours after the store of its
\* key is answered with the stored products, and a lookup made more than
\* ttl_hours after it is answered with None.
C23_AsStated ==
    [][Answered =>
           \A row \in search_cache :
               RowOfLookup(row) /\ ~LoadRaises(row.products_json)
                   => /\ Age(row) < ttl_hours
                          => cache_reply'[1].result = <<LoadProducts(row.products_json)>>
                      /\ Age(row) > ttl_hours
                          => cache_reply'[1].result = <<>>]_vars

-----------------------------------------------------------------------------
(* C24: one row per cache key                                               *)

\* cache_search_results has just written rows.
Written == search_cache' \ search_cache

\* C24: whatever calls are made, search_cache never holds two rows with the
\* same cache_key; a store leaves its row as the only one of its key and
\* keeps the rows of the other keys; and a lookup answered while the row of
\* its key is unexpired and loads is answered with the products of that row,
\* the list stored last under the key.
C24_OneRowPerKey ==
    [][/\ \A r1 \in search_cache', r2 \in search_cache' :
              r1.cache_key = r2.cache_key => r1 = r2
       /\ \A row \in Written :
              /\ \A r \in search_cache' : r.cache_key = row.cache_key => r = row
              /\ \A r \in search_cache : r.cache_key # row.cache_key => r \in search_cache'
       /\ Answered =>
              \A row \in search_cache :
                  RowOfLookup(row) /\ Unexpired(row) /\ ~LoadRaises(row.products_json)
                      => cache_reply'[1].result = <<LoadProducts(row.products_json)>>]_vars

\* A lookup was answered with a list, and a later store under its key has
\* replaced the row it read by a row with another list.
C24_Witness ==
    /\ cache_reply # <<>>
    /\ cache_reply[1].result # <<>>
    /\ \E row \in search_cache :
           /\ row.cache_key = _generate_cache_key(cache_reply[1].query_type, cache_reply[1].params)
           /\ ~LoadRaises(row.products_json)
           /\ <<LoadProducts(row.products_json)>> # cache_reply[1].result
           /\ \A r \in search_cache : r.cache_key = row.cache_key => r = row

-----------------------------------------------------------------------------
(* C25: classify_product is by-URL first, keywords otherwise                *)

\* C25: classify_product returns exactly what classify_by_url returns when
\* that is a category, and then classify_by_keywords is not reached, so the
\* branches for two produced categories are not executed; otherwise it
\* returns exactly what classify_by_keywords returns.
C25_UrlElseKeywords ==
    cls_result # <<>> =>
        LET u == classify_by_url(cls_url)
            k == classify_by_keywords(cls_name, cls_description)
        IN  /\ u.category # None => (cls_result[1] = u /\ ~cls_keywords_called)
            /\ u.category = None => (cls_result[1] = k /\ cls_keywords_called)

\* The two methods produce different categories for the call, the keywords
\* were not consulted and the by-URL result was returned.
C25_Witness ==
    /\ cls_result # <<>>
    /\ classify_by_url(cls_url).category # None
    /\ classify_by_keywords(cls_name, cls_description).category
           \notin {None, classify_by_url(cls_url).category}
    /\ ~cls_keywords_called
    /\ cls_result[1] = classify_by_url(cls_url)

-----------------------------------------------------------------------------
(* C26: the classification put into the record                              *)

\* The (category, confidence) of the emitted record.
Carried == [category |-> Record.category, confidence |-> Record.category_confidence]

\* r is, of the results a and b, one with the higher confidence.
Better(r, a, b) ==
    /\ r \in {a, b}
    /\ ~NumLt(r.confidence, a.confidence)
    /\ ~NumLt(r.confidence, b.confidence)

-----------------------------------------------------------------------------
(* C27: the search loops end                                                *)

\* C27: every search function ends, after at most 5 calls of
\* extract_products_from_page and none after the first call that returned no
\* products, and what it returns has at most max_products products.
C27_Terminates ==
    /\ <>(srch_result # <<>>)
    /\ [](srch_fetches <= 5)
    /\ [][srch_empty => srch_fetches' = srch_fetches]_vars
    /\ [](srch_result # <<>> /\ ~srch_result[1].raised
              => Len(srch_result[1].products) <= srch_call[1].max_products)

\* A search of offers returned after 5 pages, none of them empty, with fewer
\* products than asked for.
C27_Witness ==
    /\ srch_result # <<>>
    /\ srch_fetches = 5
    /\ ~srch_empty
    /\ Len(srch_result[1].products) < srch_call[1].max_products

-----------------------------------------------------------------------------
(* C28: the single request makes at most 3 attempts                         *)

\* An attempt on the page has just ended.
Attempted == aff_attempts' # aff_attempts

\* The attempt that has just ended found no textarea, no generate button,
\* no second textarea or an empty one, or raised.
FailedAttempt ==
    \/ aff_last'[1].kind \in {"no_textarea", "no_button", "one_textarea"}
    \/ aff_last'[1].kind \in {"textarea_error", "input_error", "result_error"}
    \/ aff_last'[1].kind = "content" /\ aff_last'[1].content = <<>>

\* C28: a call of generate_affiliate_links_batch_single_request always
\* returns, after at most 3 attempts on the page; an attempt is followed by
\* another one only when it read a non-empty result holding fewer links than
\* the urls submitted; an attempt failing in any other way returns the empty
\* list at once.
C28_BoundedRetries ==
    /\ (aff_urls # <<>>) ~> (aff_links # <<>>)
    /\ [](aff_attempts <= 3)
    /\ [][Attempted /\ aff_links' = <<>>
              => /\ aff_last'[1].kind = "content"
                 /\ aff_last'[1].content # <<>>
                 /\ Len(AffiliateLinks(aff_last'[1].content)) < Len(aff_urls[1])]_vars
    /\ [][Attempted /\ FailedAttempt => aff_links' = << <<>> >>]_vars

\* The third attempt again read fewer links than urls, and the call returned
\* the links it read.
C28_Witness ==
    /\ aff_attempts = 3
    /\ aff_links # <<>>
    /\ aff_links[1] # <<>>
    /\ Len(aff_links[1]) < Len(aff_urls[1])

-----------------------------------------------------------------------------
(* C29: the results of generate_affiliate_links_batch                       *)

\* The positions, in the products given, of those with a non-blank url.
WithUrl == {i \in 1..Len(aff_products[1]) : Strip(aff_products[1][i].url) # <<>>}

\* The product with a non-blank url that comes j-th in the input.
NthWithUrl(j) ==
    aff_products[1][CHOOSE i \in WithUrl : Cardinality({k \in WithUrl : k <= i}) = j]

\* The links the single request returned, none if it was not made.
LinksReturned == IF aff_links = <<>> THEN 0 ELSE Len(aff_links[1])

\* C29 as stated: once generate_affiliate_links_batch has returned,
\* product_mapping has one entry for each product with a non-blank url, in
\* the order of the input; success_count is the smaller of the number of
\* links returned and the number of those products, and is the number of
\* entries whose url_afiliado is not None; success_count + error_count is
\* the number of those products.
C29_AsStated ==
    aff_results # <<>> =>
        LET results == aff_results[1]
            mapping == results.product_mapping
        IN  /\ Len(mapping) = Cardinality(WithUrl)
            /\ \A j \in 1..Len(mapping) :
                   /\ mapping[j].url_original = NthWithUrl(j).url
                   /\ mapping[j].nome = NthWithUrl(j).name
            /\ results.success_count =
                   (IF LinksReturned < Cardinality(WithUrl)
                    THEN LinksReturned ELSE Cardinality(WithUrl))
            /\ results.success_count =
                   Cardinality({j \in 1..Len(mapping) : mapping[j].url_afiliado # <<>>})
            /\ results.success_count + results.error_count = Cardinality(WithUrl)

-----------------------------------------------------------------------------
(* C30: extract_product_id does not raise                                   *)

\* C30: extract_product_id raises for no url: wherever '/p/ML[AB]' and
\* digits match, 'ML[AB]' and digits match too and are tried before, so the
\* call returns the id of that first pattern and group(1) is not asked of
\* the pattern without a group.
C30_NeverRaises ==
    pid_result # <<>> =>
        /\ ~pid_result[1].raised
        /\ PathIdMatches(pid_url) # {}
               => /\ MLIdMatches(pid_url) # {}
                  /\ pid_result[1].id # <<>>
                  /\ SubSeq(pid_result[1].id, 1, 2) = <<"M", "L">>

\* The url holds '/p/MLB123' and the call returned an id starting with ML.
C30_Witness ==
    /\ pid_result # <<>>
    /\ PathIdMatches(pid_url) # {}
    /\ ~pid_result[1].raised
    /\ SubSeq(pid_result[1].id, 1, 3) = <<"M", "L", "B">>

=============================================================================
